---- MODULE Spec2Model ----
(***************************************************************************)
(* A model of the MCP-over-MQTT provider (web/src/lib/mcp-mqtt-server.ts), *)
(* its tool registry (web/src/tools), the Node test consumer               *)
(* (McpMqttClient) and the WebRTC signaling session                        *)
(* (web/src/services/mqtt-webrtc-signaling.ts).                            *)
(***************************************************************************)
EXTENDS Integers, Sequences, FiniteSets, TLC

\* ------------------------------------------------------------------ bounds

\* Messages a peer has published that the receiving client has not handled yet.
MaxInbox == 1

\* Readline interfaces the consumer's setupManualInput creates.
MaxInputs == 1

\* tools/call requests suspended in onTakePhoto at one time.
MaxPending == 1

\* Pending setTimeout(subscribeToMcpTopics) timers at one time.
MaxTimers == 1

\* MQTT clients one McpMqttServer creates (one per connect() that passes its guard).
MaxClients == 1

\* MQTT clients one McpMqttServer creates where the ownership of its clients is
\* examined: connect() called again on an instance that holds a client.
MaxOwned == 2

\* MQTT clients the connectMqtt of one useWebRTCMqtt hook creates.
MaxHookClients == 2

\* Sessions the connect() of one useWebRTCMqtt hook creates.
MaxSessions == 2

\* Calls of the hook's connect() suspended at one time.
MaxCalls == 2

\* ------------------------------------------------------- JavaScript values

\* A JSON value after JSON.parse, or "absent" for a key the object lacks.
Absent == [t |-> "absent", b |-> FALSE, s |-> "", n |-> 0]
Null == [t |-> "null", b |-> FALSE, s |-> "", n |-> 0]
Bool(x) == [t |-> "boolean", b |-> x, s |-> "", n |-> 0]
Str(x) == [t |-> "string", b |-> FALSE, s |-> x, n |-> 0]
Num(x) == [t |-> "number", b |-> FALSE, s |-> "", n |-> x]

\* typeof v
TypeOf(v) == IF v.t = "null" THEN "object" ELSE v.t

\* `field in args`
In(field, fields) == fields[field].t # "absent"

\* The empty object {}.
NoFields ==
  [enabled |-> Absent, emotion |-> Absent, source |-> Absent,
   quality |-> Absent, volume |-> Absent, muted |-> Absent]

\* params.arguments: missing or null ("absent"), an object, or a non-empty
\* string (on which the `in` operator throws a TypeError).
NoArguments == [shape |-> "absent", f |-> NoFields]
ObjectArguments(fields) == [shape |-> "object", f |-> fields]
StringArguments == [shape |-> "string", f |-> NoFields]

\* args || {}
OrEmpty(a) == IF a.shape = "absent" THEN ObjectArguments(NoFields) ELSE a

\* ----------------------------------------------------------- tool registry

SUPPORTED_EMOTIONS ==
  {"happy", "sad", "angry", "surprised", "thinking", "playful", "relaxed",
   "serious", "shy", "tired", "disappointed", "laugh"}

\* The own keys of TOOL_DEFINITIONS, in insertion order.
ToolNames == <<"control_camera", "change_emotion", "take_photo", "control_volume">>

\* Keys every plain object inherits from Object.prototype: TOOL_DEFINITIONS[k]
\* and TOOL_HANDLERS[k] are defined for them although no tool is registered.
InheritedKeys == {"constructor"}

TOOL_DEFINITIONS ==
  [control_camera |->
     [required |-> <<"enabled">>,
      properties |-> <<[field |-> "enabled", type |-> "boolean", enum |-> {}]>>],
   change_emotion |->
     [required |-> <<"emotion">>,
      properties |->
        <<[field |-> "emotion", type |-> "string", enum |-> SUPPORTED_EMOTIONS]>>],
   take_photo |->
     [required |-> <<>>,
      properties |->
        <<[field |-> "source", type |-> "string", enum |-> {"local", "remote"}],
          [field |-> "quality", type |-> "number", enum |-> {}]>>],
   control_volume |->
     [required |-> <<>>,
      properties |->
        <<[field |-> "volume", type |-> "number", enum |-> {}],
          [field |-> "muted", type |-> "boolean", enum |-> {}]>>]]

IsOwnTool(name) == name \in DOMAIN TOOL_DEFINITIONS

\* The definition registered under a name, as tools/list carries it.
ToolDefinition(name) == [name |-> name, inputSchema |-> TOOL_DEFINITIONS[name]]

\* A listing in the alphabetical order of the names.
getToolsListSorted ==
  <<ToolDefinition("change_emotion"), ToolDefinition("control_camera"),
    ToolDefinition("control_volume"), ToolDefinition("take_photo")>>

\* Object.values(TOOL_DEFINITIONS): the values of the own keys, in insertion
\* order.
getToolsList == [i \in DOMAIN ToolNames |-> ToolDefinition(ToolNames[i])]

\* enumValues.includes(value)
Includes(enum, v) == v.t = "string" /\ v.s \in enum

\* The errors one property contributes (type check, then enum check).
FieldErrors(p, fields) ==
  IF ~In(p.field, fields) THEN <<>>
  ELSE
    LET v == fields[p.field]
        typeErr ==
          IF p.type = "boolean" /\ TypeOf(v) # "boolean"
            THEN <<[kind |-> "must be a boolean", field |-> p.field]>>
          ELSE IF p.type = "string" /\ TypeOf(v) # "string"
            THEN <<[kind |-> "must be a string", field |-> p.field]>>
          ELSE <<>>
        enumErr ==
          IF p.enum # {} /\ ~Includes(p.enum, v)
            THEN <<[kind |-> "must be one of", field |-> p.field]>>
          ELSE <<>>
    IN typeErr \o enumErr

RECURSIVE PropertyErrors(_, _)
PropertyErrors(props, fields) ==
  IF props = <<>> THEN <<>>
  ELSE FieldErrors(Head(props), fields) \o PropertyErrors(Tail(props), fields)

RequiredErrors(required, fields) ==
  LET missing == SelectSeq(required, LAMBDA f : ~In(f, fields))
  IN [i \in 1..Len(missing) |-> [kind |-> "Missing required field", field |-> missing[i]]]

\* A validateToolArguments that stops at the first violation it finds.
validateToolArgumentsFirstOnly(toolName, args) ==
  IF toolName \in InheritedKeys
    THEN [threw |-> FALSE, valid |-> TRUE, errors |-> <<>>]
  ELSE IF ~IsOwnTool(toolName)
    THEN [threw |-> FALSE, valid |-> FALSE,
          errors |-> <<[kind |-> "Unknown tool", field |-> toolName]>>]
  ELSE
    LET schema == TOOL_DEFINITIONS[toolName]
        errors == RequiredErrors(schema.required, args.f)
                    \o PropertyErrors(schema.properties, args.f)
    IN [threw |-> FALSE, valid |-> errors = <<>>,
        errors |-> IF errors = <<>> THEN <<>> ELSE <<Head(errors)>>]

\* validateToolArguments(toolName, args): threw is the TypeError of
\* `field in args` on a primitive.
validateToolArguments(toolName, args) ==
  IF toolName \in InheritedKeys
    THEN [threw |-> FALSE, valid |-> TRUE, errors |-> <<>>]
  ELSE IF ~IsOwnTool(toolName)
    THEN [threw |-> FALSE, valid |-> FALSE,
          errors |-> <<[kind |-> "Unknown tool", field |-> toolName]>>]
  ELSE
    LET schema == TOOL_DEFINITIONS[toolName]
        errors == RequiredErrors(schema.required, args.f)
                    \o PropertyErrors(schema.properties, args.f)
    IN IF args.shape = "string" /\ (schema.required # <<>> \/ schema.properties # <<>>)
         THEN [threw |-> TRUE, valid |-> FALSE, errors |-> <<>>]
         ELSE [threw |-> FALSE, valid |-> errors = <<>>, errors |-> errors]

\* ------------------------------------------------------------ tool handlers

AllCallbacks == {"onCameraControl", "onEmotionChange", "onTakePhoto", "onVolumeControl"}

\* How an application callback behaves when it is called.
CallbackOutcomes == {"returns", "throws"}

\* JavaScript truthiness, as in `enabled ? 'ON' : 'OFF'`.
Truthy(v) ==
  CASE v.t = "boolean" -> v.b
    [] v.t = "string" -> v.s # ""
    [] v.t = "number" -> v.n # 0
    [] OTHER -> FALSE

\* `${v}` in a template string.
Text(v) ==
  CASE v.t = "string" -> v.s
    [] v.t = "number" -> ToString(v.n)
    [] v.t = "boolean" -> IF v.b THEN "true" ELSE "false"
    [] v.t = "null" -> "null"
    [] OTHER -> "undefined"

Failed(message) == [success |-> FALSE, message |-> message]
Succeeded(message) == [success |-> TRUE, message |-> message]

\* What a handler hands back to executeToolCall: it returns a result or throws,
\* having made the application callback calls in `calls`.
Returned(result, calls) == [threw |-> FALSE, result |-> result, calls |-> calls]
Threw(calls) == [threw |-> TRUE, result |-> Failed(<<"callback threw">>), calls |-> calls]

controlCameraHandler(fields, context, outcome) ==
  LET enabled == fields.enabled
      call == <<[cb |-> "onCameraControl", a1 |-> enabled, a2 |-> Absent]>>
  IN IF "onCameraControl" \in context
       THEN IF outcome = "throws" THEN Threw(call)
            ELSE Returned(Succeeded(<<"Camera ",
                                      IF Truthy(enabled) THEN "enabled" ELSE "disabled",
                                      " successfully">>), call)
       ELSE Returned(Failed(<<"Camera control callback not available">>), <<>>)

\* A handler that calls onEmotionChange once to apply and once to confirm.
changeEmotionHandlerTwice(fields, context, outcome) ==
  LET emotion == fields.emotion
      call == [cb |-> "onEmotionChange", a1 |-> emotion, a2 |-> Absent]
  IN IF "onEmotionChange" \in context
       THEN IF outcome = "throws" THEN Threw(<<call>>)
            ELSE Returned(Succeeded(<<"Emotion changed to ", Text(emotion),
                                      " successfully">>), <<call, call>>)
       ELSE Returned(Failed(<<"Emotion change callback not available">>), <<>>)

changeEmotionHandler(fields, context, outcome) ==
  LET emotion == fields.emotion
      call == <<[cb |-> "onEmotionChange", a1 |-> emotion, a2 |-> Absent]>>
  IN IF "onEmotionChange" \in context
       THEN IF outcome = "throws" THEN Threw(call)
            ELSE Returned(Succeeded(<<"Emotion changed to ", Text(emotion),
                                      " successfully">>), call)
       ELSE Returned(Failed(<<"Emotion change callback not available">>), <<>>)

\* Numbers of `quality` are in hundredths: Num(90) is 0.9, the default.
takePhotoHandler(fields, context, outcome) ==
  LET source == IF In("source", fields) THEN fields.source ELSE Str("remote")
      quality == IF In("quality", fields) THEN fields.quality ELSE Num(90)
      call == <<[cb |-> "onTakePhoto", a1 |-> source, a2 |-> quality]>>
  IN IF "onTakePhoto" \in context
       THEN IF outcome = "throws"
              THEN Returned(Failed(<<"Photo capture failed: ", "callback threw">>), call)
              ELSE Returned(Succeeded(<<"Photo captured successfully: ", "filename">>), call)
       ELSE Returned(Failed(<<"Photo capture callback not available">>), <<>>)

\* onVolumeControl receives volume / 100: its first argument is in hundredths.
controlVolumeHandler(fields, context, outcome) ==
  LET volume == fields.volume
      muted == fields.muted
      call == <<[cb |-> "onVolumeControl", a1 |-> volume, a2 |-> muted]>>
      status ==
        (IF In("volume", fields) THEN <<"volume set to ", Text(volume), "%">> ELSE <<>>)
          \o (IF In("muted", fields)
                THEN <<"audio ", IF Truthy(muted) THEN "muted" ELSE "unmuted">>
                ELSE <<>>)
  IN IF In("volume", fields)
          /\ (TypeOf(volume) # "number" \/ volume.n < 0 \/ volume.n > 100)
       THEN Returned(Failed(<<"Volume must be a number between 0 and 100">>), <<>>)
     ELSE IF In("muted", fields) /\ TypeOf(muted) # "boolean"
       THEN Returned(Failed(<<"Muted must be a boolean value">>), <<>>)
     ELSE IF ~In("volume", fields) /\ ~In("muted", fields)
       THEN Returned(Failed(<<"Either volume or muted parameter must be provided">>), <<>>)
     ELSE IF "onVolumeControl" \in context
       THEN IF outcome = "throws" THEN Threw(call)
            ELSE Returned(Succeeded(<<"Volume control updated: ">> \o status), call)
     ELSE Returned(Failed(<<"Volume control callback not available">>), <<>>)

\* TOOL_HANDLERS: the handler registered under a tool name.
TOOL_HANDLERS(toolName, fields, context, outcome) ==
  CASE toolName = "control_camera" -> controlCameraHandler(fields, context, outcome)
    [] toolName = "change_emotion" -> changeEmotionHandler(fields, context, outcome)
    [] toolName = "take_photo" -> takePhotoHandler(fields, context, outcome)
    [] toolName = "control_volume" -> controlVolumeHandler(fields, context, outcome)

\* executeToolCall(toolName, args, context): ran tells whether a handler was
\* called, calls the application callbacks it called. An inherited key finds
\* Object.prototype's member, which hands the arguments back: an object with no
\* `success` and no `message`.
executeToolCall(toolName, args, context, outcome) ==
  IF toolName \in InheritedKeys
    THEN [threw |-> FALSE, ran |-> TRUE, calls |-> <<>>, result |-> Failed(<<"">>)]
  ELSE IF toolName \notin {ToolNames[i] : i \in DOMAIN ToolNames}
    THEN [threw |-> FALSE, ran |-> FALSE, calls |-> <<>>,
          result |-> Failed(<<"No handler found for tool: ", toolName>>)]
  ELSE
    LET h == TOOL_HANDLERS(toolName, args.f, context, outcome)
    IN IF h.threw
         THEN [threw |-> FALSE, ran |-> TRUE, calls |-> h.calls,
               result |-> Failed(<<"Tool execution failed: ", "callback threw">>)]
         ELSE [threw |-> FALSE, ran |-> TRUE, calls |-> h.calls, result |-> h.result]

\* ------------------------------------------------- provider: McpMqttServer

VARIABLES
  connectionState,  \* McpMqttServer.connectionState
  mqttClient,       \* McpMqttServer.mqttClient: 0 is null, k the k-th client created
  isInitialized,    \* McpMqttServer.isInitialized
  callbacks,        \* McpMqttServer.callbacks: the callbacks the application gave
  eventListeners,   \* McpMqttServer.eventListeners: the callback each slot holds, "" when unset
  ended,            \* the clients ended by disconnect()
  linked,           \* the client holding the broker connection of the client id, or 0
  clientSubs,       \* the topic filters each client has subscribed
  subTimers,        \* pending setTimeout(subscribeToMcpTopics, 100) timers
  retained,         \* whether the broker retains the provider's online notification
  inbox,            \* messages the broker has routed to the linked client, in order
  photoTasks,       \* tools/call requests suspended in context.onTakePhoto
  turn              \* the request handler run of the current event-loop turn

transportVars == <<connectionState, mqttClient, ended, linked, clientSubs, subTimers>>

providerVars ==
  <<connectionState, mqttClient, isInitialized, callbacks, eventListeners, ended, linked,
    clientSubs, subTimers, retained, inbox, photoTasks, turn>>

\* The consumer: McpMqttClient of the Node test client.
VARIABLES
  cConnected,       \* McpMqttClient.isConnected
  cTopics,          \* the topic filters the consumer has subscribed
  servers,          \* McpMqttClient.servers
  currentServer,    \* whether McpMqttClient.currentServer is set
  manualInputs,     \* readline interfaces setupManualInput has created
  cInbox,           \* messages the broker has routed to the consumer, in order
  cIssued,          \* ids of the requests the consumer has published
  cTurn             \* the message the consumer handled in its current turn

consumerRest == <<cConnected, cTopics, servers, currentServer, manualInputs, cIssued, cTurn>>

consumerVars == <<consumerRest, cInbox>>

\* The signaling session: MqttWebRTCSignaling.
VARIABLES
  sPhase,           \* where the connect() call in progress stands, "none" when none is
  sState,           \* the state last reported through onConnectionStateChange
  pc,               \* MqttWebRTCSignaling.pc: "null" or "open"
  localStream,      \* whether MqttWebRTCSignaling.localStream is set
  remoteStream,     \* whether MqttWebRTCSignaling.remoteStream is set
  messageHandler,   \* whether MqttWebRTCSignaling.messageHandler is set and attached
  sSubscribed,      \* whether the session's topics are subscribed on the MQTT client
  localDescription, \* whether the peer connection has its local description (the offer)
  remoteDescription,\* the peer connection's remote description: "null", "pending", "set"
  chained,          \* candidates addIceCandidate holds behind a pending setRemoteDescription
  applied,          \* candidates the peer connection has taken, in order
  sSent,            \* candidates the proxy has sent
  sClosed,          \* whether disconnect() has run since connect() was last called
  sAcked,           \* whether the connect() call in progress, or the last one, had its
                    \* subscription acknowledged and installed its message listener
  sMqtt,            \* the MQTT client the session uses: "connected", "offline", "ended"
  trackEnabled,     \* track.enabled of the local stream's audio and video tracks
  hookEnabled,      \* useWebRTCMqtt's isAudioEnabled and isVideoEnabled
  sTurn             \* what the session did in the current turn

sigVars ==
  <<sPhase, sState, pc, localStream, remoteStream, messageHandler, sSubscribed,
    localDescription, remoteDescription, chained, applied, sSent, sClosed, sAcked,
    sMqtt, trackEnabled, hookEnabled, sTurn>>

\* The tool registry called directly: the call made last and what it returned.
VARIABLES registry

\* The useWebRTCMqtt hook, as far as overlapping calls of its connect() show:
\* the MQTT clients connectMqtt created, the sessions connect() created, the
\* refs and state the hook keeps, and the client each suspended call awaits.
VARIABLES hook

vars == <<providerVars, consumerVars, sigVars, registry, hook>>

\* The consumer's client id.
ClientId == "c1"

\* Request ids peers choose.
Ids == {Num(1), Num(2)}

Clients == 1..MaxOwned

\* The MCP-MQTT-CLIENT-ID user property of a message: absent, one value, or an
\* array when the property is repeated.
NoTag == [shape |-> "absent", v |-> <<>>]
Tag(c) == [shape |-> "single", v |-> <<c>>]
TagArray(cs) == [shape |-> "array", v |-> cs]

\* Topics: $mcp-server/{serverId}/{serverName} ("control"),
\* $mcp-rpc/{consumer}/{serverId}/{serverName} ("rpc") and
\* $mcp-server/presence/{serverId}/{serverName} ("presence").
ControlTopic == [kind |-> "control", consumer |-> ""]
RpcTopic(c) == [kind |-> "rpc", consumer |-> c]
PresenceTopic == [kind |-> "presence", consumer |-> ""]

\* Payloads, as JSON.parse sees them.
NoResult == [present |-> FALSE, kind |-> "", tools |-> <<>>, text |-> <<>>]
NoError == [present |-> FALSE, code |-> 0, prefix |-> "", errors |-> <<>>, text |-> <<>>]
Malformed ==
  [json |-> "malformed", id |-> Absent, method |-> "", hasParams |-> FALSE,
   name |-> "undefined", arguments |-> NoArguments, result |-> NoResult, error |-> NoError]
JsonNull == [Malformed EXCEPT !.json = "null"]
Request(id, method) == [Malformed EXCEPT !.json = "object", !.id = id, !.method = method]
ToolsCall(id, name, arguments) ==
  [Request(id, "tools/call") EXCEPT !.hasParams = TRUE, !.name = name, !.arguments = arguments]

Message(sender, topic, tag, payload) ==
  [sender |-> sender, topic |-> topic, tag |-> tag, payload |-> payload]

\* The tools/call parameters peers send.
CallParams ==
  { <<"change_emotion", ObjectArguments([NoFields EXCEPT !.emotion = Str("happy")])>>,
    <<"change_emotion", ObjectArguments(NoFields)>>,
    <<"change_emotion", StringArguments>>,
    <<"control_camera", ObjectArguments([NoFields EXCEPT !.enabled = Str("yes")])>>,
    <<"take_photo", NoArguments>>,
    <<"control_volume", ObjectArguments([NoFields EXCEPT !.volume = Num(150)])>>,
    <<"nope", ObjectArguments(NoFields)>>,
    <<"constructor", ObjectArguments(NoFields)>> }

\* What a peer may publish towards the provider: the payload, the topic and the
\* user property. `sender` is the peer that published it.
PeerMessages ==
  LET byC1 ==
        { Request(id, "tools/list") : id \in Ids }
          \cup { ToolsCall(Num(1), p[1], p[2]) : p \in CallParams }
          \cup { Request(Num(1), "tools/call"), Request(Num(1), "unsupported/thing"),
                 Malformed, JsonNull }
      byC2 == { Request(Num(1), "tools/list") }
  IN { Message("c1", RpcTopic("c1"), Tag("c1"), r) : r \in byC1 }
     \cup { Message("c2", RpcTopic("c2"), Tag("c2"), r) : r \in byC2 }
     \cup { Message("c1", ControlTopic, t, Request(Num(1), "initialize")) :
              t \in {Tag("c1"), NoTag, TagArray(<<"c1", "c2">>)} }

\* The response envelopes the provider builds.
InitializeResponse(id) ==
  [Malformed EXCEPT !.json = "object", !.id = id,
     !.result = [present |-> TRUE, kind |-> "initialize", tools |-> <<>>, text |-> <<>>]]
ToolsListResponse(id, tools) ==
  [Malformed EXCEPT !.json = "object", !.id = id,
     !.result = [present |-> TRUE, kind |-> "tools", tools |-> tools, text |-> <<>>]]
ToolsCallResponse(id, text) ==
  [Malformed EXCEPT !.json = "object", !.id = id,
     !.result = [present |-> TRUE, kind |-> "content", tools |-> <<>>, text |-> text]]
\* An error envelope that carries a result member as well.
ErrorResponseWithResult(id, prefix, errors, text) ==
  [Malformed EXCEPT !.json = "object", !.id = id,
     !.result = [present |-> TRUE, kind |-> "content", tools |-> <<>>, text |-> text],
     !.error = [present |-> TRUE, code |-> -32000, prefix |-> prefix,
                errors |-> errors, text |-> text]]

ErrorResponse(id, prefix, errors, text) ==
  [Malformed EXCEPT !.json = "object", !.id = id,
     !.error = [present |-> TRUE, code |-> -32000, prefix |-> prefix,
                errors |-> errors, text |-> text]]

PublishOutcomes == {"accepted", "rejected"}

\* A publish that hands the message to the client whatever connectionState is.
publishWithoutGuard(outcome) ==
  /\ mqttClient # 0
  /\ mqttClient \notin ended
  /\ outcome = "accepted"

\* publish(topic, message): whether the promise resolves. It rejects without
\* calling the client when no client exists or connectionState is not
\* 'connected'; an ended client answers with an error; otherwise the client's
\* callback decides.
publish(outcome) ==
  /\ mqttClient # 0
  /\ connectionState = "connected"
  /\ mqttClient \notin ended
  /\ outcome = "accepted"

\* A provider that addresses its responses to itself.
ResponderId(m) == "provider"

\* The requester identity handleMcpMessage derives from a message.
RequesterId(m) ==
  IF m.topic.kind \in {"control", "presence"}
    THEN IF m.tag.shape = "absent" THEN "unknown" ELSE m.tag.v[1]
    ELSE m.topic.consumer

LogEntry(level, text) == [level |-> level, text |-> text]

\* A tools/call that executes the tool whatever validation says.
ToolsCallOutcomeUnvalidated(request, context, cb) ==
  LET name == IF request.hasParams THEN request.name ELSE "undefined"
      args == OrEmpty(request.arguments)
      execution == executeToolCall(name, args, context, cb)
      run == <<[tool |-> name, args |-> args, calls |-> execution.calls]>>
  IN IF ~execution.result.success
       THEN [kind |-> "error", runs |-> IF execution.ran THEN run ELSE <<>>,
             payload |-> ErrorResponse(request.id, "", <<>>, execution.result.message)]
       ELSE [kind |-> "result", runs |-> run,
             payload |-> ToolsCallResponse(request.id, execution.result.message)]

\* What handling one tools/call request amounts to, up to publishing:
\* the handler runs it made and the envelope it wants to publish.
\* kind "result": built in the try block; "error": built in the catch block.
ToolsCallOutcome(request, context, cb) ==
  LET name == IF request.hasParams THEN request.name ELSE "undefined"
      args == OrEmpty(request.arguments)
      validation == validateToolArguments(name, args)
      execution == executeToolCall(name, args, context, cb)
      run == <<[tool |-> name, args |-> args, calls |-> execution.calls]>>
  IN IF validation.threw
       THEN [kind |-> "error", runs |-> <<>>,
             payload |-> ErrorResponse(request.id, "", <<>>, <<"TypeError">>)]
     ELSE IF ~validation.valid
       THEN [kind |-> "error", runs |-> <<>>,
             payload |-> ErrorResponse(request.id, "Invalid arguments: ",
                                       validation.errors, <<>>)]
     ELSE IF ~execution.result.success
       THEN [kind |-> "error", runs |-> IF execution.ran THEN run ELSE <<>>,
             payload |-> ErrorResponse(request.id, "", <<>>, execution.result.message)]
     ELSE [kind |-> "result", runs |-> run,
           payload |-> ToolsCallResponse(request.id, execution.result.message)]

\* Whether the tools/call request suspends in `await context.onTakePhoto(...)`.
AwaitsPhoto(request, context) ==
  /\ request.hasParams
  /\ request.name = "take_photo"
  /\ "onTakePhoto" \in context
  /\ LET v == validateToolArguments("take_photo", OrEmpty(request.arguments))
     IN ~v.threw /\ v.valid

\* The part of handleToolsCallRequest from its first publish on: the result is
\* published; when that rejects, or when the try block threw, the catch block
\* publishes an error envelope, and when that rejects too the handler rejects.
ToolsCallPublishes(request, outcome, a1, a2) ==
  IF outcome.kind = "result" /\ publish(a1)
    THEN [out |-> <<outcome.payload>>, errors |-> 0, rejected |-> FALSE]
  ELSE
    LET payload ==
          IF outcome.kind = "result"
            THEN ErrorResponse(request.id, "", <<>>, <<"publish failed">>)
            ELSE outcome.payload
        a == IF outcome.kind = "result" THEN a2 ELSE a1
    IN IF publish(a)
         THEN [out |-> <<payload>>, errors |-> 1, rejected |-> FALSE]
         ELSE [out |-> <<>>, errors |-> 1, rejected |-> TRUE]

\* What one run of a request handler does: the envelopes it gets published on
\* `topic`, its warn/error log entries, its tool handler runs, whether its
\* promise rejected, whether it set isInitialized, and whether it is left
\* suspended in onTakePhoto.
Effects(topic, out, logs, runs, rejected, initialized, photo) ==
  [topic |-> topic, out |-> out, logs |-> logs, runs |-> runs,
   rejected |-> rejected, initialized |-> initialized, photo |-> photo]

Dropped(topic, logs) == Effects(topic, <<>>, logs, <<>>, FALSE, FALSE, FALSE)

handleInitializeRequest(request, topic, a1) ==
  IF publish(a1)
    THEN Effects(topic, <<InitializeResponse(request.id)>>, <<>>, <<>>, FALSE, TRUE, FALSE)
    ELSE Effects(topic, <<>>, <<>>, <<>>, TRUE, FALSE, FALSE)

handleToolsListRequest(request, topic, a1) ==
  IF publish(a1)
    THEN Effects(topic, <<ToolsListResponse(request.id, getToolsList)>>, <<>>, <<>>,
                 FALSE, FALSE, FALSE)
    ELSE Effects(topic, <<>>, <<>>, <<>>, TRUE, FALSE, FALSE)

\* handleToolsCallRequest once the tool has been executed with `outcome`.
FinishToolsCall(request, topic, outcome, a1, a2) ==
  LET p == ToolsCallPublishes(request, outcome, a1, a2)
  IN Effects(topic, p.out,
             [i \in 1..p.errors |-> LogEntry("error", "Sending error response")],
             outcome.runs, p.rejected, FALSE, FALSE)

handleToolsCallRequest(request, topic, cb, a1, a2) ==
  IF AwaitsPhoto(request, callbacks)
    THEN Effects(topic, <<>>, <<>>,
                 ToolsCallOutcome(request, callbacks, "returns").runs, FALSE, FALSE, TRUE)
    ELSE FinishToolsCall(request, topic, ToolsCallOutcome(request, callbacks, cb), a1, a2)

\* A switch whose default branch answers with an error envelope.
DispatchAnsweringUnknown(data, topic, cb, a1, a2) ==
  CASE data.method = "initialize" -> handleInitializeRequest(data, topic, a1)
    [] data.method = "tools/list" -> handleToolsListRequest(data, topic, a1)
    [] data.method = "tools/call" -> handleToolsCallRequest(data, topic, cb, a1, a2)
    [] OTHER -> Effects(topic, <<ErrorResponse(data.id, "", <<>>, <<"Method not found">>)>>,
                        <<LogEntry("warn", "Unknown tool")>>, <<>>, FALSE, FALSE, FALSE)

\* A switch that answers an envelope without a method, as a response is, with
\* an Invalid Request error.
DispatchAnsweringResponses(data, topic, cb, a1, a2) ==
  CASE data.method = "initialize" -> handleInitializeRequest(data, topic, a1)
    [] data.method = "tools/list" -> handleToolsListRequest(data, topic, a1)
    [] data.method = "tools/call" -> handleToolsCallRequest(data, topic, cb, a1, a2)
    [] data.method = "" ->
         Effects(topic,
                 IF publish(a1)
                   THEN <<ErrorResponse(data.id, "", <<>>, <<"Invalid Request">>)>>
                   ELSE <<>>,
                 <<LogEntry("warn", "Unknown tool")>>, <<>>, FALSE, FALSE, FALSE)
    [] OTHER -> Dropped(topic, <<LogEntry("warn", "Unknown tool")>>)

\* A switch that serves tools/list and tools/call only once initialize has
\* been received.
DispatchWhenInitialized(data, topic, cb, a1, a2) ==
  CASE data.method = "initialize" -> handleInitializeRequest(data, topic, a1)
    [] data.method \in {"tools/list", "tools/call"} /\ ~isInitialized ->
         Effects(topic,
                 IF publish(a1)
                   THEN <<ErrorResponse(data.id, "", <<>>, <<"Server not initialized">>)>>
                   ELSE <<>>,
                 <<>>, <<>>, FALSE, FALSE, FALSE)
    [] data.method = "tools/list" -> handleToolsListRequest(data, topic, a1)
    [] data.method = "tools/call" -> handleToolsCallRequest(data, topic, cb, a1, a2)
    [] OTHER -> Dropped(topic, <<LogEntry("warn", "Unknown tool")>>)

\* The switch on data.method.
Dispatch(data, topic, cb, a1, a2) ==
  CASE data.method = "initialize" -> handleInitializeRequest(data, topic, a1)
    [] data.method = "tools/list" -> handleToolsListRequest(data, topic, a1)
    [] data.method = "tools/call" -> handleToolsCallRequest(data, topic, cb, a1, a2)
    [] OTHER -> Dropped(topic, <<LogEntry("warn", "Unknown tool")>>)

\* A handleMcpMessage that answers an unparsable payload with an error envelope.
handleMcpMessageAnsweringMalformed(m, cb, a1, a2) ==
  LET topic == RpcTopic(IF m.topic.kind = "rpc" THEN m.topic.consumer ELSE "unknown")
  IN IF m.payload.json # "object"
       THEN Effects(topic, <<ErrorResponse(Null, "", <<>>, <<"Parse error">>)>>,
                    <<LogEntry("error", "Message handling failed")>>, <<>>,
                    FALSE, FALSE, FALSE)
       ELSE Dispatch(m.payload, topic, cb, a1, a2)

\* handleMcpMessage(message): JSON.parse throws on a malformed payload and
\* data.method throws on null; both end in the catch block.
handleMcpMessage(m, cb, a1, a2) ==
  LET topic == RpcTopic(RequesterId(m))
  IN IF m.payload.json # "object"
       THEN Dropped(topic, <<LogEntry("error", "Message handling failed")>>)
       ELSE Dispatch(m.payload, topic, cb, a1, a2)

\* No handler has run in this turn.
NoMessage == Message("", ControlTopic, NoTag, Malformed)
Idle ==
  [kind |-> "idle", m |-> NoMessage, e |-> Dropped(ControlTopic, <<>>), dispatched |-> 0,
   notified |-> <<>>]

\* The callbacks the application passes to onMessage and onError.
ListenerNames == {"first", "second"}

NoListeners == [onMessage |-> "", onError |-> ""]

\* this.eventListeners.onX?.(...): the callbacks that are called, in order.
Called(slot) == IF slot = "" THEN <<>> ELSE <<slot>>

\* A client on which every 'connect' event registers the 'message' listener
\* again: after a reconnect it holds two.
ListenersPerConnectEvent(k) == IF k \in 1..mqttClient THEN 2 ELSE 0

\* The 'message' listeners client k holds: connect() registers one on the
\* client it creates, and no other code registers any.
Listeners(k) == IF k \in 1..mqttClient THEN 1 ELSE 0

\* The broker routes what the provider published: back to the provider when
\* the linked client has subscribed $mcp-rpc/+/{serverId}/{serverName} (a
\* response's topic matches that filter), and to the consumer when it has
\* subscribed the topic.
Route(rest, topic, out) ==
  LET msgs == [i \in 1..Len(out) |-> Message("provider", topic, Tag("provider"), out[i])]
  IN /\ inbox' =
          IF topic.kind = "rpc" /\ linked # 0 /\ "rpc" \in clientSubs[linked]
            THEN rest \o msgs
            ELSE rest
     /\ cInbox' = IF topic = RpcTopic(ClientId) /\ "rpc" \in cTopics
                    THEN cInbox \o msgs
                    ELSE cInbox

\* mqttClient.on('message'): a message on an $mcp-server/ or $mcp-rpc/ topic goes
\* to handleMcpMessage (the provider subscribes no other topic).
OnMessage ==
  \E cb \in CallbackOutcomes, a1 \in PublishOutcomes, a2 \in PublishOutcomes :
    /\ inbox # <<>>
    /\ Len(cInbox) <= MaxInbox
    /\ LET m == Head(inbox)
           e == handleMcpMessage(m, cb, a1, a2)
       IN /\ e.photo => Len(photoTasks) < MaxPending
          /\ turn' = [kind |-> "message", m |-> m, e |-> e, dispatched |-> Listeners(linked),
                      notified |-> Called(eventListeners.onMessage)]
          /\ Route(Tail(inbox), e.topic, e.out)
          /\ isInitialized' = (isInitialized \/ e.initialized)
          /\ photoTasks' = IF e.photo THEN Append(photoTasks, m) ELSE photoTasks
    /\ UNCHANGED <<transportVars, callbacks, eventListeners, retained>>
    /\ UNCHANGED <<consumerRest, sigVars, registry, hook>>

\* The promise of context.onTakePhoto settles: takePhotoHandler returns, and
\* handleToolsCallRequest resumes in whatever state the connection is in by then.
OnPhotoSettled ==
  \E i \in DOMAIN photoTasks, cb \in CallbackOutcomes,
     a1 \in PublishOutcomes, a2 \in PublishOutcomes :
    /\ Len(cInbox) <= MaxInbox
    /\ LET m == photoTasks[i]
           topic == RpcTopic(RequesterId(m))
           outcome == ToolsCallOutcome(m.payload, callbacks, cb)
           e == FinishToolsCall(m.payload, topic, [outcome EXCEPT !.runs = <<>>], a1, a2)
       IN /\ turn' = [kind |-> "settled", m |-> m, e |-> e, dispatched |-> 0,
                      notified |-> <<>>]
          /\ Route(inbox, e.topic, e.out)
    /\ photoTasks' = [j \in 1..(Len(photoTasks) - 1) |->
                        IF j < i THEN photoTasks[j] ELSE photoTasks[j + 1]]
    /\ UNCHANGED <<transportVars, isInitialized, callbacks, eventListeners, retained>>
    /\ UNCHANGED <<consumerRest, sigVars, registry, hook>>

\* $webrtc/{id} and $message/{id}; s1 is the session's client id, s2 that of
\* another session.
WebrtcTopic(id) == [kind |-> "webrtc", consumer |-> id]
MessageTopic(id) == [kind |-> "message", consumer |-> id]

\* A 'message' handler that hands every message to handleMcpMessage.
IsAnyTopic(topic) == TRUE

\* The test of the 'message' handler: topic.startsWith('$mcp-server/') ||
\* topic.startsWith('$mcp-rpc/').
IsMcpTopic(topic) == topic.kind \in {"control", "presence", "rpc"}

\* What arrives on the topics of a signaling session: its own messages, which
\* have no method, and JSON-RPC requests.
SessionTopicPayloads ==
  { Request(Absent, ""), Request(Num(1), "tools/list"),
    ToolsCall(Num(1), "change_emotion",
              ObjectArguments([NoFields EXCEPT !.emotion = Str("happy")])) }

\* mqttClient.on('message') for a message on $webrtc/{id} or $message/{id},
\* which a client that the signaling session uses as well receives.
OnSessionTopic ==
  \E payload \in SessionTopicPayloads, cb \in CallbackOutcomes,
     a1 \in PublishOutcomes, a2 \in PublishOutcomes :
    \E topic \in {WebrtcTopic("s1"), MessageTopic("s1")} :
      /\ linked # 0
      /\ Len(cInbox) <= MaxInbox
      /\ LET m == Message("proxy", topic, NoTag, payload)
             e == IF IsMcpTopic(topic) THEN handleMcpMessage(m, cb, a1, a2)
                  ELSE Dropped(topic, <<>>)
         IN /\ e.photo => Len(photoTasks) < MaxPending
            /\ turn' = [kind |-> "other topic", m |-> m, e |-> e,
                        dispatched |-> Listeners(linked),
                        notified |-> Called(eventListeners.onMessage)]
            /\ Route(inbox, e.topic, e.out)
            /\ isInitialized' = (isInitialized \/ e.initialized)
            /\ photoTasks' = IF e.photo THEN Append(photoTasks, m) ELSE photoTasks
      /\ UNCHANGED <<transportVars, callbacks, eventListeners, retained>>
      /\ UNCHANGED <<consumerRest, sigVars, registry, hook>>

\* Whether the broker routes a message on `topic` to the provider's linked client.
Reaches(topic) ==
  /\ linked # 0
  /\ topic.kind \in clientSubs[linked]

\* A peer publishes towards the provider.
PeerPublish ==
  \E m \in PeerMessages :
    /\ Reaches(m.topic)
    /\ Len(inbox) < MaxInbox
    /\ inbox' = Append(inbox, m)
    /\ turn' = Idle
    /\ UNCHANGED <<transportVars, isInitialized, callbacks, eventListeners, retained, photoTasks>>
    /\ UNCHANGED <<consumerVars, sigVars, registry, hook>>

\* ------------------------------------------------- provider: transport

\* connect() of an instance that creates at most `most` clients: past the guard
\* a new client is created and assigned to this.mqttClient, the client the
\* field held is neither ended nor kept; or mqtt.connect throws.
ConnectCreating(most) ==
  /\ ~(mqttClient # 0 /\ connectionState = "connected")
  /\ \/ /\ mqttClient < most
        /\ mqttClient' = mqttClient + 1
        /\ connectionState' = "connecting"
     \/ /\ connectionState' = "error"
        /\ UNCHANGED mqttClient
  /\ turn' = Idle
  /\ UNCHANGED <<ended, linked, clientSubs, subTimers>>
  /\ UNCHANGED <<isInitialized, callbacks, eventListeners, retained, inbox, photoTasks>>
  /\ UNCHANGED <<consumerVars, sigVars, registry, hook>>

\* connect() called again and again on one instance.
ConnectAgain == ConnectCreating(MaxOwned)

\* connect(): past the guard a new client is created, unless mqtt.connect throws.
Connect ==
  /\ ~(mqttClient # 0 /\ connectionState = "connected")
  /\ \/ /\ mqttClient < MaxClients
        /\ mqttClient' = mqttClient + 1
        /\ connectionState' = "connecting"
     \/ /\ connectionState' = "error"
        /\ UNCHANGED mqttClient
  /\ turn' = Idle
  /\ UNCHANGED <<ended, linked, clientSubs, subTimers>>
  /\ UNCHANGED <<isInitialized, callbacks, eventListeners, retained, inbox, photoTasks>>
  /\ UNCHANGED <<consumerVars, sigVars, registry, hook>>

\* on('connect') of client k: the broker has accepted the connection of the
\* client id, taking it from the client that held it; mqtt.js subscribes again
\* what k had subscribed.
OnConnect ==
  \E k \in 1..mqttClient :
    /\ k \notin ended
    /\ linked # k
    /\ subTimers < MaxTimers
    /\ linked' = k
    /\ connectionState' = "connected"
    /\ subTimers' = subTimers + 1
    /\ inbox' = <<>>
    /\ turn' = Idle
    /\ UNCHANGED <<mqttClient, ended, clientSubs>>
    /\ UNCHANGED <<isInitialized, callbacks, eventListeners, retained, photoTasks>>
    /\ UNCHANGED <<consumerVars, sigVars, registry, hook>>

\* The connection of the linked client is lost; no handler is registered for
\* 'close', so connectionState keeps its value. Messages in flight are lost.
OnClose ==
  /\ linked # 0
  /\ linked' = 0
  /\ inbox' = <<>>
  /\ turn' = Idle
  /\ UNCHANGED <<connectionState, mqttClient, ended, clientSubs, subTimers>>
  /\ UNCHANGED <<isInitialized, callbacks, eventListeners, retained, photoTasks>>
  /\ UNCHANGED <<consumerVars, sigVars, registry, hook>>

\* on('disconnect'): the broker sends DISCONNECT to the linked client.
OnDisconnect ==
  /\ linked # 0
  /\ connectionState' = "disconnected"
  /\ linked' = 0
  /\ inbox' = <<>>
  /\ turn' = Idle
  /\ UNCHANGED <<mqttClient, ended, clientSubs, subTimers>>
  /\ UNCHANGED <<isInitialized, callbacks, eventListeners, retained, photoTasks>>
  /\ UNCHANGED <<consumerVars, sigVars, registry, hook>>

\* The turn of an 'error' event: the onError callbacks called, and in
\* e.rejected whether reject(error) rejected the promise of connect().
ErrorTurn(notified, rejected) ==
  [Idle EXCEPT !.kind = "error", !.notified = notified, !.e.rejected = rejected]

\* on('error') of a client that has not been ended. The promise of the
\* connect() call that created the client is still pending while
\* connectionState is 'connecting'; reject(error) then rejects it, and does
\* nothing once the promise is settled.
OnError ==
  \E k \in 1..mqttClient :
    /\ k \notin ended
    /\ connectionState' = "error"
    /\ turn' = ErrorTurn(Called(eventListeners.onError),
                         k = mqttClient /\ connectionState = "connecting")
    /\ UNCHANGED <<mqttClient, ended, linked, clientSubs, subTimers>>
    /\ UNCHANGED <<isInitialized, callbacks, eventListeners, retained, inbox, photoTasks>>
    /\ UNCHANGED <<consumerVars, sigVars, registry, hook>>

\* disconnect(): ends the current client; mqttClient keeps referring to it.
Disconnect ==
  /\ mqttClient # 0
  /\ ended' = ended \cup {mqttClient}
  /\ connectionState' = "disconnected"
  /\ linked' = IF linked = mqttClient THEN 0 ELSE linked
  /\ inbox' = IF linked = mqttClient THEN <<>> ELSE inbox
  /\ turn' = Idle
  /\ UNCHANGED <<mqttClient, clientSubs, subTimers>>
  /\ UNCHANGED <<isInitialized, callbacks, eventListeners, retained, photoTasks>>
  /\ UNCHANGED <<consumerVars, sigVars, registry, hook>>

\* The online notification on the presence topic.
OnlineNotification ==
  Message("provider", PresenceTopic, Tag("provider"),
          Request(Absent, "notifications/server/online"))

\* The turn in which the retained online notification was published.
Announced == [Idle EXCEPT !.kind = "announce"]

\* How far subscribeToMcpTopics gets before a subscribe or the publish rejects:
\* the steps that succeeded.
SubscribeOutcomes == {{}, {"control"}, {"control", "rpc"}, {"control", "rpc", "presence"}}

\* The timer set by on('connect') fires: subscribeToMcpTopics().
SubscribeToMcpTopics ==
  \E done \in SubscribeOutcomes :
    /\ subTimers > 0
    /\ subTimers' = subTimers - 1
    /\ Len(cInbox) <= MaxInbox
    /\ done # {} => publish("accepted")
    /\ clientSubs' = IF done = {} THEN clientSubs
                     ELSE [clientSubs EXCEPT ![mqttClient] = @ \cup (done \ {"presence"})]
    /\ retained' = (retained \/ "presence" \in done)
    /\ cInbox' = IF "presence" \in done /\ "presence" \in cTopics
                   THEN Append(cInbox, OnlineNotification)
                   ELSE cInbox
    /\ turn' = IF "presence" \in done THEN Announced ELSE Idle
    /\ UNCHANGED <<connectionState, mqttClient, ended, linked>>
    /\ UNCHANGED <<isInitialized, callbacks, eventListeners, inbox, photoTasks>>
    /\ UNCHANGED <<consumerRest, sigVars, registry, hook>>

\* onMessage(callback): the callback takes the slot, replacing what it held.
RegisterOnMessage ==
  \E f \in ListenerNames :
    /\ eventListeners' = [eventListeners EXCEPT !.onMessage = f]
    /\ turn' = Idle
    /\ UNCHANGED <<transportVars, isInitialized, callbacks, retained, inbox, photoTasks>>
    /\ UNCHANGED <<consumerVars, sigVars, registry, hook>>

\* onError(callback).
RegisterOnError ==
  \E f \in ListenerNames :
    /\ eventListeners' = [eventListeners EXCEPT !.onError = f]
    /\ turn' = Idle
    /\ UNCHANGED <<transportVars, isInitialized, callbacks, retained, inbox, photoTasks>>
    /\ UNCHANGED <<consumerVars, sigVars, registry, hook>>

ProviderInit ==
  /\ connectionState = "disconnected"
  /\ mqttClient = 0
  /\ isInitialized = FALSE
  /\ callbacks \in {AllCallbacks, {}}
  /\ eventListeners = NoListeners
  /\ ended = {}
  /\ linked = 0
  /\ clientSubs = [k \in Clients |-> {}]
  /\ subTimers = 0
  /\ retained = FALSE
  /\ inbox = <<>>
  /\ photoTasks = <<>>
  /\ turn = Idle

ProviderNext ==
  \/ Connect
  \/ OnConnect
  \/ OnClose
  \/ OnDisconnect
  \/ OnError
  \/ Disconnect
  \/ SubscribeToMcpTopics
  \/ PeerPublish
  \/ OnMessage
  \/ OnPhotoSettled

\* ------------------------------------------------- provider: properties

RecognizedMethods == {"initialize", "tools/list", "tools/call"}

\* A request handler has run in this turn, on message turn.m.
HandlerRan == turn.kind \in {"message", "settled"}

\* The handler run of this turn is over: it is not suspended in onTakePhoto.
HandlerDone == HandlerRan /\ ~turn.e.photo

IsRequest(p) == p.json = "object" /\ p.method # ""

IsErrorEnvelope(p) == p.error.present /\ ~p.result.present

\* The provider's own fields.
providerFields == <<connectionState, mqttClient, isInitialized, callbacks, photoTasks>>

\* C1: every request with a recognized method gets exactly one response, with
\* the request's id, on the rpc topic of the requester, also when a publish is
\* rejected or the transport is not connected.
C1_ExactlyOneResponse ==
  (HandlerDone /\ IsRequest(turn.m.payload)
     /\ turn.m.payload.method \in RecognizedMethods)
    => /\ Len(turn.e.out) = 1
       /\ turn.e.out[1].id = turn.m.payload.id
       /\ turn.e.topic = RpcTopic(RequesterId(turn.m))

C5_FailureNeverEscapes ==
  (HandlerDone /\ IsRequest(turn.m.payload) /\ turn.m.payload.method = "tools/call")
    => /\ ~turn.e.rejected
       /\ (turn.e.out = <<>> \/ ~turn.e.out[1].result.present)
            => /\ Len(turn.e.out) = 1
               /\ IsErrorEnvelope(turn.e.out[1])
               /\ turn.e.out[1].error.code = -32000
               /\ turn.e.out[1].id = turn.m.payload.id

\* The turn handled a parsed message whose method is none of the recognized ones.
UnknownMethodTurn ==
  /\ turn.kind = "message"
  /\ turn.m.payload.json = "object"
  /\ turn.m.payload.method \notin RecognizedMethods

\* C6: a request with an unrecognized method gets no response and one logged
\* warning, runs no tool, and leaves the provider's fields as they were.
C6_UnknownMethodSilent ==
  /\ [](UnknownMethodTurn =>
          /\ turn.e.out = <<>>
          /\ turn.e.logs = <<LogEntry("warn", "Unknown tool")>>
          /\ turn.e.runs = <<>>
          /\ ~turn.e.rejected)
  /\ [][UnknownMethodTurn' => UNCHANGED providerFields]_vars

C6_Witness ==
  /\ UnknownMethodTurn
  /\ turn.m.payload.method = "unsupported/thing"
  /\ connectionState = "connected"
  /\ linked = mqttClient

\* The turn handled a message whose payload is not valid JSON.
MalformedTurn ==
  /\ turn.kind = "message"
  /\ turn.m.payload.json = "malformed"

\* C7: a payload that is not valid JSON is logged and dropped: nothing is
\* published, no tool runs, nothing is thrown, and the provider's fields and
\* subscriptions stay as they were, so that later requests are handled as before.
C7_MalformedDropped ==
  /\ [](MalformedTurn =>
          /\ turn.e.out = <<>>
          /\ turn.e.logs = <<LogEntry("error", "Message handling failed")>>
          /\ turn.e.runs = <<>>
          /\ ~turn.e.rejected)
  /\ [][MalformedTurn' => UNCHANGED <<providerFields, transportVars, cInbox>>]_vars

C7_Witness ==
  /\ MalformedTurn
  /\ connectionState = "connected"
  /\ linked = mqttClient
  /\ {"control", "rpc"} \subseteq clientSubs[linked]

\* The identity a request names for its sender: on the control topic the
\* MCP-MQTT-CLIENT-ID user property, its first value when repeated, and
\* 'unknown' when the request carries none; on an rpc topic the topic's
\* consumer segment.
NamedIdentity(m) ==
  IF m.topic.kind = "control"
    THEN CASE m.tag.shape = "absent" -> "unknown"
           [] m.tag.shape = "single" -> m.tag.v[1]
           [] m.tag.shape = "array" -> Head(m.tag.v)
    ELSE m.topic.consumer

C9_ResultXorError ==
  HandlerRan =>
    \A i \in DOMAIN turn.e.out :
      turn.e.out[i].result.present # turn.e.out[i].error.present

C9_Witness ==
  /\ turn.kind = "settled"
  /\ Len(turn.e.out) = 1
  /\ turn.e.out[1].error.present
  /\ turn.e.logs # <<>>

\* The registered tools as definitions.ts declares them, first to last.
RegisteredTools ==
  <<[name |-> "control_camera",
     inputSchema |->
       [required |-> <<"enabled">>,
        properties |-> <<[field |-> "enabled", type |-> "boolean", enum |-> {}]>>]],
    [name |-> "change_emotion",
     inputSchema |->
       [required |-> <<"emotion">>,
        properties |->
          <<[field |-> "emotion", type |-> "string", enum |-> SUPPORTED_EMOTIONS]>>]],
    [name |-> "take_photo",
     inputSchema |->
       [required |-> <<>>,
        properties |->
          <<[field |-> "source", type |-> "string", enum |-> {"local", "remote"}],
            [field |-> "quality", type |-> "number", enum |-> {}]>>]],
    [name |-> "control_volume",
     inputSchema |->
       [required |-> <<>>,
        properties |->
          <<[field |-> "volume", type |-> "number", enum |-> {}],
            [field |-> "muted", type |-> "boolean", enum |-> {}]>>]]>>

\* A turn that answered a tools/list request.
ToolsListAnswered ==
  /\ turn.kind = "message"
  /\ turn.m.payload.json = "object"
  /\ turn.m.payload.method = "tools/list"
  /\ turn.e.out # <<>>

ValidToolsCall ==
  /\ turn.kind = "message"
  /\ turn.m.payload.json = "object"
  /\ turn.m.payload.method = "tools/call"
  /\ turn.m.payload.hasParams
  /\ IsOwnTool(turn.m.payload.name)
  /\ LET v == validateToolArguments(turn.m.payload.name, OrEmpty(turn.m.payload.arguments))
     IN ~v.threw /\ v.valid

HappyArguments == ObjectArguments([NoFields EXCEPT !.emotion = Str("happy")])

\* C26: a valid tools/call runs its tool's handler exactly once, with the
\* request's arguments, and the turn that resumes a suspended call runs none
\* again; for change_emotion with {emotion: "happy"} and onEmotionChange
\* registered, the callback is called exactly once with "happy", and a
\* published result carries the handler's success message.
C26_HandlerInvokedOnce ==
  /\ ValidToolsCall
       => /\ Len(turn.e.runs) = 1
          /\ turn.e.runs[1].tool = turn.m.payload.name
          /\ turn.e.runs[1].args = OrEmpty(turn.m.payload.arguments)
  /\ turn.kind = "settled" => turn.e.runs = <<>>
  /\ ( /\ ValidToolsCall
       /\ turn.m.payload.name = "change_emotion"
       /\ turn.m.payload.arguments = HappyArguments
       /\ "onEmotionChange" \in callbacks )
       => /\ turn.e.runs[1].calls =
               <<[cb |-> "onEmotionChange", a1 |-> Str("happy"), a2 |-> Absent]>>
          /\ \A i \in DOMAIN turn.e.out :
               turn.e.out[i].result.present
                 => /\ turn.e.out[i].result.kind = "content"
                    /\ turn.e.out[i].result.text =
                         <<"Emotion changed to ", "happy", " successfully">>

\* change_emotion was called with "happy" and its result was published.
C26_Witness ==
  /\ ValidToolsCall
  /\ turn.m.payload.arguments = HappyArguments
  /\ Len(turn.e.out) = 1
  /\ turn.e.out[1].result.present
  /\ ~turn.e.out[1].error.present
  /\ Len(turn.e.runs[1].calls) = 1

\* Whether the 'message' handler calls callback f for a message it receives.
Receives(f, listeners) ==
  \E i \in DOMAIN Called(listeners.onMessage) : Called(listeners.onMessage)[i] = f

\* C27: every callback registered through onMessage is called for every
\* inbound message: a callback that receives the messages still receives them
\* after another callback is registered, and a message turn notifies every
\* callback that receives.
C27_EveryListenerNotified ==
  /\ [](turn.kind = "message"
          => \A f \in ListenerNames :
               Receives(f, eventListeners)
                 => \E i \in DOMAIN turn.notified : turn.notified[i] = f)
  /\ [][\A f \in ListenerNames :
          Receives(f, eventListeners) => Receives(f, eventListeners')]_vars

\* C28: a transport error is surfaced as a state change only: the 'error'
\* event sets connectionState to 'error', calls the registered error listener
\* and makes no call of the application fail; and when the client reconnects,
\* connectionState is 'connected' again and publishing is possible again,
\* without a call of connect().
C28_ErrorIsStateChangeOnly ==
  /\ [](turn.kind = "error"
          => /\ connectionState = "error"
             /\ turn.notified = Called(eventListeners.onError)
             /\ ~turn.e.rejected)
  /\ [][(linked' # 0 /\ linked' # linked)
          => /\ connectionState' = "connected"
             /\ mqttClient' = mqttClient
             /\ (linked' = mqttClient => publish("accepted")')]_vars

\* What may be published in answer to a tools/list or tools/call request, as a
\* function of the request, the registered callbacks, what the tool's callback
\* does and whether the first and the second publish are accepted.
StatelessResponse(request, context, cb, p1, p2) ==
  IF request.method = "tools/list"
    THEN IF p1 THEN <<ToolsListResponse(request.id, RegisteredTools)>> ELSE <<>>
    ELSE LET outcome == ToolsCallOutcome(request, context, cb)
         IN IF p1 THEN <<outcome.payload>>
            ELSE IF outcome.kind = "result" /\ p2
              THEN <<ErrorResponse(request.id, "", <<>>, <<"publish failed">>)>>
            ELSE <<>>

\* A turn that handled, or resumed, a tools/list or tools/call request.
ToolRequestTurn ==
  /\ turn.kind \in {"message", "settled"}
  /\ turn.m.payload.json = "object"
  /\ turn.m.payload.method \in {"tools/list", "tools/call"}

\* C31: what is published in answer to a tools/list or tools/call request is
\* determined by the request, the registered callbacks and the outcome of the
\* callback and of the publishes; it is the same whatever requests were
\* handled before, whether or not initialize was received.
C31_ToolCallsStateless ==
  ToolRequestTurn
    => turn.e.out \in { StatelessResponse(turn.m.payload, callbacks, cb, p1, p2) :
                          cb \in CallbackOutcomes, p1 \in BOOLEAN, p2 \in BOOLEAN }

\* A tools/call answered with its result although initialize was never received.
C31_Witness ==
  /\ ToolRequestTurn
  /\ turn.m.payload.method = "tools/call"
  /\ ~isInitialized
  /\ turn.e.out # <<>>
  /\ turn.e.out[1].result.present

\* A turn that handled a message the provider itself had published.
EchoTurn == turn.kind = "message" /\ turn.m.sender = "provider"

\* C33: a response of the provider that the broker delivers back to it is
\* handled without publishing anything, running a tool or setting
\* isInitialized, and every turn publishes at most one message: no response
\* is answered, so no publish loop exists.
C33_OwnResponsesUnanswered ==
  /\ HandlerRan => Len(turn.e.out) <= 1
  /\ EchoTurn
       => /\ turn.e.out = <<>>
          /\ turn.e.runs = <<>>
          /\ ~turn.e.initialized
          /\ ~turn.e.photo

\* The provider received one of its own responses on the rpc topic.
C33_Witness ==
  /\ EchoTurn
  /\ turn.m.topic.kind = "rpc"
  /\ turn.m.payload.result.present \/ turn.m.payload.error.present

\* The subscriptions subscribeToMcpTopics makes before it announces.
RequestTopics == {"control", "rpc"}

\* C34: the online notification is published only by a run that had both
\* subscriptions acknowledged, and whenever the broker holds the notification
\* while the provider's client is connected, that client has both
\* subscriptions, so that a consumer that discovers the provider and sends a
\* request at once reaches it.
C34_PresenceAfterSubscriptions ==
  /\ turn.kind = "announce" => RequestTopics \subseteq clientSubs[mqttClient]
  /\ (retained /\ linked # 0 /\ linked = mqttClient)
       => RequestTopics \subseteq clientSubs[linked]

\* The clients the instance created and has not ended. Each was created with
\* the client id of connectionOptions.
LiveClients == {k \in 1..mqttClient : k \notin ended}

\* C36: an instance has at most one client that is not ended, whatever the
\* order of connect(), disconnect() and the events of its clients.
C36_OneLiveClient == Cardinality(LiveClients) <= 1

\* C38: a message on $webrtc/{id} or $message/{id} makes the provider publish
\* nothing, run no tool and keep isInitialized; a message on a topic of the
\* provider or of another session leaves the session's peer connection, streams,
\* listener and reported state as they were.
C38_TopicsDoNotInterfere ==
  /\ [](turn.kind = "other topic"
          => /\ turn.e.out = <<>>
             /\ turn.e.runs = <<>>
             /\ ~turn.e.initialized
             /\ ~turn.e.photo)
  /\ [][sTurn'.op = "other topic"
          => UNCHANGED <<pc, localDescription, remoteDescription, chained, applied,
                         localStream, remoteStream, messageHandler, sSubscribed,
                         sState, trackEnabled>>]_vars

\* The provider received a tools/call request on a session's topic, and the
\* session, with an answer applied, a candidate on another session's topic.
C38_Witness ==
  /\ turn.kind = "other topic"
  /\ turn.m.payload.method = "tools/call"
  /\ sTurn.op = "other topic"
  /\ sTurn.candidate # ""
  /\ pc = "open"
  /\ remoteDescription = "set"

\* The guard of publish and subscribe fails: no client, or connectionState is
\* not 'connected'.
NotConnected == mqttClient = 0 \/ connectionState # "connected"

\* C39: while the transport is not connected, a handler that publishes its
\* response has the publish rejected and nothing sent, subscribeToMcpTopics
\* subscribes and announces nothing, and both leave connectionState, the
\* event listeners and the client's 'message' listeners as they were.
C39_RejectsWhenNotConnected ==
  [][NotConnected
       => /\ (turn'.kind \in {"message", "settled"})
               => /\ turn'.e.out = <<>>
                  /\ (turn'.m.payload.json = "object"
                        /\ turn'.m.payload.method \in RecognizedMethods
                        /\ ~turn'.e.photo) => turn'.e.rejected
                  /\ connectionState' = connectionState
                  /\ eventListeners' = eventListeners
                  /\ Listeners(mqttClient)' = Listeners(mqttClient)
          /\ (subTimers' < subTimers)
               => /\ clientSubs' = clientSubs
                  /\ retained' = retained
                  /\ turn'.kind # "announce"
                  /\ connectionState' = connectionState
                  /\ eventListeners' = eventListeners]_vars

\* A tools/list request was handled while connectionState was 'error': the
\* publish was rejected and nothing was sent.
C39_Witness ==
  /\ turn.kind = "message"
  /\ turn.m.payload.method = "tools/list"
  /\ connectionState = "error"
  /\ mqttClient # 0
  /\ turn.e.rejected
  /\ turn.e.out = <<>>

\* C19: after every 'connect' event of the provider's client the retained
\* online notification is eventually published, unless the connection is lost.
C19_PresenceRepublished ==
  [](subTimers > 0 => <>(turn.kind = "announce" \/ linked = 0))

ForeignId == Num(7)

NoServerMessage == Message("", ControlTopic, NoTag, Malformed)

\* What a handler of the consumer did: the message it handled, the methods
\* it called, the ids issued and the servers discovered before it ran, and the
\* requests it published.
ConsumerTurn(kind, m, acted, known) ==
  [kind |-> kind, m |-> m, acted |-> acted, known |-> known,
   discovered |-> servers, sent |-> <<>>]

\* The turn t, in which the requests `methods` were published.
Sending(t, methods) == [t EXCEPT !.sent = methods]

ConsumerIdleTurn == ConsumerTurn("idle", NoServerMessage, <<>>, {})

\* connect() and on('connect'): the presence filter is subscribed, and the
\* broker delivers the retained online notification.
ClientConnect ==
  /\ ~cConnected
  /\ Len(cInbox) < MaxInbox
  /\ cConnected' = TRUE
  /\ cTopics' = {"presence"}
  /\ cInbox' = IF retained THEN Append(cInbox, OnlineNotification) ELSE cInbox
  /\ cTurn' = ConsumerIdleTurn
  /\ UNCHANGED <<servers, currentServer, manualInputs, cIssued>>
  /\ UNCHANGED <<providerVars, sigVars, registry, hook>>

\* disconnect(): the client is ended; with clean sessions its subscriptions go.
ClientDisconnect ==
  /\ cConnected
  /\ cConnected' = FALSE
  /\ cTopics' = {}
  /\ cInbox' = <<>>
  /\ cTurn' = ConsumerIdleTurn
  /\ UNCHANGED <<servers, currentServer, manualInputs, cIssued>>
  /\ UNCHANGED <<providerVars, sigVars, registry, hook>>

\* What the consumer publishes: to the provider when the broker routes it
\* there, and back to the consumer when it has subscribed the topic itself.
ClientPublish(rest, m) ==
  /\ Reaches(m.topic) => Len(inbox) < MaxInbox
  /\ inbox' = IF Reaches(m.topic) THEN Append(inbox, m) ELSE inbox
  /\ cInbox' = IF m.topic = RpcTopic(ClientId) /\ "rpc" \in cTopics'
                 THEN Append(rest, m)
                 ELSE rest

\* handleServerPresence, then initializeServer: the response topic is
\* subscribed first, then the initialize request is published.
handleServerPresence(m) ==
  \E id \in Ids :
    /\ servers' = servers \cup {"provider"}
    /\ cTopics' = cTopics \cup {"rpc"}
    /\ ClientPublish(Tail(cInbox), Message(ClientId, ControlTopic, Tag(ClientId),
                                           Request(id, "initialize")))
    /\ cIssued' = cIssued \cup {id}
    /\ cTurn' = Sending(ConsumerTurn("message", m, <<"initializeServer">>, cIssued),
                        <<"initialize">>)
    /\ UNCHANGED <<currentServer, manualInputs>>

\* What handleRpcResponse does with an envelope: it looks at result and error
\* only, never at id.
RpcResponseActs(data) ==
  (IF data.result.present
     THEN CASE data.result.kind = "initialize" -> <<"listTools">>
            [] data.result.kind = "tools" -> <<"setupManualInput">>
            [] OTHER -> <<"log result">>
     ELSE <<>>)
  \o (IF data.error.present THEN <<"log error">> ELSE <<>>)

handleRpcResponse(m) ==
  LET acts == RpcResponseActs(m.payload)
      asks == acts # <<>> /\ acts[1] = "listTools"
      opens == acts # <<>> /\ acts[1] = "setupManualInput"
  IN \E id \in Ids :
       /\ UNCHANGED <<servers, cTopics>>
       /\ ~asks => id = Num(1)
       /\ opens => manualInputs < MaxInputs
       /\ IF asks
            THEN ClientPublish(Tail(cInbox), Message(ClientId, RpcTopic(ClientId),
                                                     Tag(ClientId), Request(id, "tools/list")))
            ELSE inbox' = inbox /\ cInbox' = Tail(cInbox)
       /\ cIssued' = IF asks THEN cIssued \cup {id} ELSE cIssued
       /\ currentServer' = (currentServer \/ opens)
       /\ manualInputs' = IF opens THEN manualInputs + 1 ELSE manualInputs
       /\ cTurn' = Sending(ConsumerTurn("message", m, acts, cIssued),
                           IF asks THEN <<"tools/list">> ELSE <<>>)

\* on('message'): handleMessage(topic, payload).
ClientOnMessage ==
  /\ cInbox # <<>>
  /\ LET m == Head(cInbox)
     IN IF m.payload.json # "object"
          THEN /\ cInbox' = Tail(cInbox)
               /\ cTurn' = ConsumerTurn("message", m, <<"parse error">>, cIssued)
               /\ UNCHANGED <<inbox, servers, cTopics, cIssued, currentServer, manualInputs>>
        ELSE IF m.topic.kind = "presence"
          THEN IF m.payload.method = "notifications/server/online"
                 THEN handleServerPresence(m)
                 ELSE /\ cInbox' = Tail(cInbox)
                      /\ cTurn' = ConsumerTurn("message", m, <<>>, cIssued)
                      /\ UNCHANGED <<inbox, servers, cTopics, cIssued, currentServer,
                                     manualInputs>>
        ELSE handleRpcResponse(m)
  /\ turn' = Idle
  /\ UNCHANGED <<cConnected, transportVars, isInitialized, callbacks, eventListeners>>
  /\ UNCHANGED <<retained, photoTasks>>
  /\ UNCHANGED <<sigVars, registry, hook>>

\* callTool(toolName, args), as the commands of the manual input prompt call
\* it: it publishes whenever currentServer is set.
ClientCallTool ==
  \E id \in Ids :
    /\ cConnected
    /\ currentServer
    /\ "rpc" \in cTopics => Len(cInbox) < MaxInbox
    /\ UNCHANGED <<cConnected, cTopics, servers, currentServer, manualInputs>>
    /\ ClientPublish(cInbox, Message(ClientId, RpcTopic(ClientId), Tag(ClientId),
                                     ToolsCall(id, "change_emotion",
                                               ObjectArguments([NoFields EXCEPT
                                                                  !.emotion = Str("happy")]))))
    /\ cIssued' = cIssued \cup {id}
    /\ cTurn' = Sending(ConsumerTurn("call", NoServerMessage, <<"callTool">>, cIssued),
                        <<"tools/call">>)
    /\ turn' = Idle
    /\ UNCHANGED <<transportVars, isInitialized, callbacks, eventListeners, retained, photoTasks>>
    /\ UNCHANGED <<sigVars, registry, hook>>

\* Another peer publishes a tools/list request on the consumer's rpc topic.
ForeignRequest ==
  LET m == Message("c2", RpcTopic(ClientId), Tag("c2"), Request(ForeignId, "tools/list"))
  IN /\ Reaches(m.topic)
     /\ Len(inbox) < MaxInbox
     /\ Len(cInbox) < MaxInbox
     /\ inbox' = Append(inbox, m)
     /\ cInbox' = IF "rpc" \in cTopics THEN Append(cInbox, m) ELSE cInbox
     /\ turn' = Idle
     /\ UNCHANGED <<transportVars, isInitialized, callbacks, eventListeners, retained, photoTasks>>
     /\ UNCHANGED <<consumerRest, sigVars, registry, hook>>

ConsumerIdle ==
  /\ cConnected = FALSE
  /\ cTopics = {}
  /\ servers = {}
  /\ currentServer = FALSE
  /\ manualInputs = 0
  /\ cInbox = <<>>
  /\ cIssued = {}
  /\ cTurn = ConsumerIdleTurn

\* C17: every request the consumer publishes (initialize, tools/list,
\* tools/call) is published while the consumer holds a completed subscription
\* to its response topic.
C17_SubscribedBeforeRequest == cTurn.sent # <<>> => "rpc" \in cTopics

\* C18: the presence announcement of a provider the consumer has already
\* discovered starts no second initialize handshake.
C18_DiscoveryIdempotent ==
  (cTurn.kind = "message" /\ cTurn.acted = <<"initializeServer">>)
    => "provider" \notin cTurn.discovered

\* C2: a response the consumer acts on answers a request of its own: its id is
\* the id of a request the consumer has published, so that each tools/list
\* call gets the response carrying its own id and no other.
C2_ResponseMatchesOwnRequest ==
  (cTurn.kind = "message" /\ cTurn.m.topic.kind = "rpc"
     /\ cTurn.m.payload.json = "object"
     /\ (cTurn.m.payload.result.present \/ cTurn.m.payload.error.present)
     /\ cTurn.acted # <<>>)
    => cTurn.m.payload.id \in cTurn.known

\* ------------------------------------------------- signaling: MqttWebRTCSignaling

\* The ICE candidates the proxy sends.
Candidates == {"A", "B"}

SigTurn(op, candidate, outcome, released, afterDisconnect) ==
  [op |-> op, candidate |-> candidate, outcome |-> outcome, released |-> released,
   afterDisconnect |-> afterDisconnect, errors |-> 0]

\* The turn t, in which callbacks.onError was called n times.
Reporting(t, n) == [t EXCEPT !.errors = n]

\* A turn in which the session did `op`.
Did(op) == SigTurn(op, "", "", {}, FALSE)

\* A peer connection as `new RTCPeerConnection` returns it.
NewPeerConnection ==
  /\ pc' = "open"
  /\ localDescription' = FALSE
  /\ remoteDescription' = "null"
  /\ chained' = <<>>
  /\ applied' = <<>>

UnchangedPeerConnection ==
  UNCHANGED <<pc, localDescription, remoteDescription, chained, applied>>

\* connect() going to setupWebRTC without awaiting the subscription.
FirstStepSetupWebRTC == "getUserMedia"

\* The step connect() awaits first.
FirstStep == "subscribing"

\* The kinds of track a local stream carries, and tracks as getUserMedia
\* returns them.
TrackKinds == {"audio", "video"}
AllEnabled == [k \in TrackKinds |-> TRUE]

\* connect() on a session no connect() has left anything on, up to
\* `await this.subscribeToTopics()`. With an MQTT client that is not connected
\* connect() throws before it does anything.
SigConnect ==
  /\ sPhase = "none"
  /\ ~messageHandler
  /\ sMqtt = "connected"
  /\ sPhase' = FirstStep
  /\ sState' = "connecting"
  /\ sClosed' = FALSE
  /\ sAcked' = FALSE
  /\ sTurn' = Did("connect")
  /\ UnchangedPeerConnection
  /\ UNCHANGED <<localStream, remoteStream, messageHandler, sSubscribed, sSent, trackEnabled>>
  /\ UNCHANGED <<registry, hook, providerVars, consumerVars, sMqtt, hookEnabled>>

\* handleError(error) calling callbacks.onError a second time.
handleErrorTwice == [errors |-> 2, state |-> "failed"]

\* handleError(error): callbacks.onError is called, then 'failed' is reported.
handleError == [errors |-> 1, state |-> "failed"]

\* connect()'s catch block during step `op`: handleError(error), then the
\* error is thrown on to the caller.
ConnectFailed(op) ==
  /\ sPhase' = "none"
  /\ sState' = handleError.state
  /\ sTurn' = Reporting(SigTurn(op, "", "failed", {}, FALSE), handleError.errors)

\* subscribeToTopics() settles; on success setupMessageHandler() attaches the
\* handler and setupWebRTC() asks for the user's media.
SigSubscribed ==
  /\ sPhase = "subscribing"
  /\ \/ /\ sMqtt = "connected"
        /\ sSubscribed' = TRUE
        /\ messageHandler' = TRUE
        /\ sPhase' = "getUserMedia"
        /\ sAcked' = TRUE
        /\ sTurn' = Did("subscribed")
        /\ UNCHANGED sState
     \/ /\ ConnectFailed("subscribed")
        /\ UNCHANGED <<sSubscribed, messageHandler, sAcked>>
  /\ UnchangedPeerConnection
  /\ UNCHANGED <<localStream, remoteStream, sSent, sClosed, trackEnabled>>
  /\ UNCHANGED <<registry, hook, providerVars, consumerVars, sMqtt, hookEnabled>>

\* getUserMedia settles; on success the peer connection and the remote stream
\* are created and createOffer is called.
SigMediaAcquired ==
  /\ sPhase = "getUserMedia"
  /\ \/ /\ localStream' = TRUE
        /\ remoteStream' = TRUE
        /\ trackEnabled' = AllEnabled
        /\ NewPeerConnection
        /\ sPhase' = "createOffer"
        /\ sTurn' = Did("media")
        /\ UNCHANGED sState
     \/ /\ ConnectFailed("media")
        /\ UnchangedPeerConnection
        /\ UNCHANGED <<localStream, remoteStream, trackEnabled>>
  /\ UNCHANGED <<messageHandler, sSubscribed, sSent, sClosed, sAcked>>
  /\ UNCHANGED <<registry, hook, providerVars, consumerVars, sMqtt, hookEnabled>>

\* sendSignal(type, data): the message is published when the MQTT client is
\* connected; otherwise an error is logged and nothing is published.
sendSignal == IF sMqtt = "connected" THEN "sent" ELSE "unsent"

\* createOffer settles and setLocalDescription after it; the offer is handed
\* to sendSignal. Either may reject. `this.pc` is read again after each await:
\* when disconnect() has run meanwhile it is null and connect() ends in its
\* catch block.
SigOfferSent ==
  /\ sPhase = "createOffer"
  /\ \/ /\ pc = "open"
        /\ localDescription' = TRUE
        /\ sPhase' = "none"
        /\ sTurn' = SigTurn("offer", "", sendSignal, {}, FALSE)
        /\ UNCHANGED sState
     \/ /\ ConnectFailed("offer")
        /\ UNCHANGED localDescription
  /\ UNCHANGED <<pc, remoteDescription, chained, applied>>
  /\ UNCHANGED <<localStream, remoteStream, messageHandler, sSubscribed, sSent>>
  /\ UNCHANGED <<sClosed, sAcked, trackEnabled>>
  /\ UNCHANGED <<registry, hook, providerVars, consumerVars, sMqtt, hookEnabled>>

\* A disconnect() that releases what it finds and keeps every field.
disconnectKeepingFields ==
  [released |-> (IF localStream THEN {"local tracks"} ELSE {})
                  \cup (IF remoteStream THEN {"remote tracks"} ELSE {})
                  \cup (IF pc # "null" THEN {"peer connection"} ELSE {})
                  \cup (IF messageHandler THEN {"listener", "subscription"} ELSE {}),
   pc |-> pc, localStream |-> localStream, remoteStream |-> remoteStream,
   messageHandler |-> messageHandler, subscribed |-> sSubscribed]

\* disconnect(): what it releases, and the fields as it leaves them.
disconnect ==
  [released |-> (IF localStream THEN {"local tracks"} ELSE {})
                  \cup (IF remoteStream THEN {"remote tracks"} ELSE {})
                  \cup (IF pc # "null" THEN {"peer connection"} ELSE {})
                  \cup (IF messageHandler THEN {"listener", "subscription"} ELSE {}),
   pc |-> "null", localStream |-> FALSE, remoteStream |-> FALSE,
   messageHandler |-> FALSE,
   subscribed |-> IF messageHandler THEN FALSE ELSE sSubscribed]

\* The fields as disconnect() leaves them.
Cleared(d) ==
  /\ pc' = d.pc
  /\ localStream' = d.localStream
  /\ remoteStream' = d.remoteStream
  /\ messageHandler' = d.messageHandler
  /\ sSubscribed' = d.subscribed
  /\ trackEnabled' = IF d.localStream THEN trackEnabled ELSE AllEnabled
  /\ chained' = IF d.pc = "null" THEN <<>> ELSE chained
  /\ remoteDescription' = IF d.pc = "null" THEN "null" ELSE remoteDescription
  /\ localDescription' = (d.pc # "null" /\ localDescription)
  /\ applied' = IF d.pc = "null" THEN <<>> ELSE applied

\* The fields after disconnect(), which reports 'disconnected'.
Disconnected(d) ==
  /\ Cleared(d)
  /\ sState' = "disconnected"

\* The application calls disconnect().
SigDisconnect ==
  /\ Disconnected(disconnect)
  /\ sTurn' = SigTurn("disconnect", "", "", disconnect.released, sTurn.op = "disconnect")
  /\ sClosed' = TRUE
  /\ UNCHANGED <<sPhase, sSent, sAcked>>
  /\ UNCHANGED <<registry, hook, providerVars, consumerVars, sMqtt, hookEnabled>>

\* The messages the proxy publishes on $webrtc/{clientId}.
SignalingMessages ==
  {[type |-> "sdp_answer", candidate |-> ""], [type |-> "webrtc_terminated", candidate |-> ""],
   [type |-> "malformed", candidate |-> ""]}
    \cup {[type |-> "ice_candidate", candidate |-> c] : c \in Candidates}

\* What pc.addIceCandidate does with a candidate: with no remote description,
\* set or being set, it rejects; behind a pending setRemoteDescription it waits
\* in the connection's operations chain; otherwise the candidate is taken.
addIceCandidate ==
  CASE remoteDescription = "null" -> "rejected"
    [] remoteDescription = "pending" -> "chained"
    [] remoteDescription = "set" -> "applied"

\* pc.setRemoteDescription(answer) is accepted when the offer is the local
\* description and no answer has been given.
AnswerAccepted == localDescription /\ remoteDescription = "null"

\* handleSignalingMessage for a message on the webrtc topic.
handleSignalingMessage(msg) ==
  CASE msg.type = "sdp_answer" ->
         /\ remoteDescription' =
              IF pc = "open" /\ AnswerAccepted THEN "pending" ELSE remoteDescription
         /\ sTurn' = SigTurn("sdp_answer", "",
                             IF pc # "open" THEN "ignored"
                             ELSE IF AnswerAccepted THEN "pending" ELSE "rejected",
                             {}, FALSE)
         /\ UNCHANGED <<pc, localDescription, chained, applied>>
         /\ UNCHANGED <<localStream, remoteStream, messageHandler, sSubscribed, sState>>
         /\ UNCHANGED <<sClosed, trackEnabled>>
    [] msg.type = "ice_candidate" ->
         LET outcome == IF pc = "open" THEN addIceCandidate ELSE "ignored"
         IN /\ chained' = IF outcome = "chained" THEN Append(chained, msg.candidate)
                          ELSE chained
            /\ applied' = IF outcome = "applied" THEN Append(applied, msg.candidate)
                          ELSE applied
            /\ sTurn' = SigTurn("ice_candidate", msg.candidate, outcome, {}, FALSE)
            /\ UNCHANGED <<pc, localDescription, remoteDescription>>
            /\ UNCHANGED <<localStream, remoteStream, messageHandler, sSubscribed, sState>>
            /\ UNCHANGED <<sClosed, trackEnabled>>
    [] msg.type = "webrtc_terminated" ->
         /\ Disconnected(disconnect)
         /\ sTurn' = Reporting(SigTurn("webrtc_terminated", "", "", disconnect.released,
                                        FALSE), 1)
         /\ sClosed' = TRUE
    [] OTHER ->
         /\ sTurn' = Did("parse error")
         /\ UnchangedPeerConnection
         /\ UNCHANGED <<localStream, remoteStream, messageHandler, sSubscribed, sState>>
         /\ UNCHANGED <<sClosed, trackEnabled>>

\* The proxy publishes a message and the attached handler receives it. Each
\* candidate is sent once.
SigOnMessage ==
  \E msg \in SignalingMessages :
    /\ messageHandler
    /\ sSubscribed
    /\ sMqtt = "connected"
    /\ msg.type = "ice_candidate" => msg.candidate \notin sSent
    /\ sSent' = IF msg.type = "ice_candidate" THEN sSent \cup {msg.candidate} ELSE sSent
    /\ handleSignalingMessage(msg)
    /\ UNCHANGED <<sPhase, sAcked>>
    /\ UNCHANGED <<registry, hook, providerVars, consumerVars, sMqtt, hookEnabled>>

\* The topics of other concerns: the provider's, and another session's.
OtherTopics == {ControlTopic, RpcTopic("s1"), PresenceTopic, WebrtcTopic("s2")}

\* The test of the session's message handler: topic === this.webrtcTopic ||
\* topic === this.messageTopic, for the session with client id s1.
IsSessionTopic(topic) == topic \in {WebrtcTopic("s1"), MessageTopic("s1")}

\* The attached handler receives a message on a topic of another concern,
\* whose payload may be any signaling message.
SigOnOtherTopic ==
  \E topic \in OtherTopics, msg \in SignalingMessages :
    /\ messageHandler
    /\ sMqtt = "connected"
    /\ IF IsSessionTopic(topic)
         THEN handleSignalingMessage(msg)
         ELSE /\ sTurn' = SigTurn("other topic", msg.candidate, msg.type, {}, FALSE)
              /\ UnchangedPeerConnection
              /\ UNCHANGED <<localStream, remoteStream, messageHandler, sSubscribed, sState>>
              /\ UNCHANGED <<sClosed, trackEnabled>>
    /\ UNCHANGED <<sPhase, sAcked, sSent>>
    /\ UNCHANGED <<registry, hook, providerVars, consumerVars, sMqtt, hookEnabled>>

\* The pending setRemoteDescription settles: the description is set, and the
\* chained addIceCandidate calls run in the order they were made.
SigAnswerApplied ==
  /\ pc = "open"
  /\ remoteDescription = "pending"
  /\ remoteDescription' = "set"
  /\ applied' = applied \o chained
  /\ chained' = <<>>
  /\ sTurn' = Did("answer applied")
  /\ UNCHANGED <<pc, localDescription>>
  /\ UNCHANGED <<sPhase, sState, localStream, remoteStream, messageHandler, sSubscribed, sSent>>
  /\ UNCHANGED <<sClosed, sAcked, trackEnabled>>
  /\ UNCHANGED <<registry, hook, providerVars, consumerVars, sMqtt, hookEnabled>>

\* pc.onconnectionstatechange: 'connected' is reported, 'failed' goes through
\* handleError.
SigConnectionStateChange ==
  \E state \in {"connected", "failed"} :
    /\ pc = "open"
    /\ remoteDescription = "set"
    /\ sState # state
    /\ sState' = IF state = "failed" THEN handleError.state ELSE state
    /\ sTurn' = Reporting(SigTurn("connection state", "", state, {}, FALSE),
                          IF state = "failed" THEN handleError.errors ELSE 0)
    /\ UnchangedPeerConnection
    /\ UNCHANGED <<sPhase, localStream, remoteStream, messageHandler, sSubscribed, sSent>>
    /\ UNCHANGED <<sClosed, sAcked, trackEnabled>>
    /\ UNCHANGED <<registry, hook, providerVars, consumerVars, sMqtt, hookEnabled>>

\* The events pc.onicecandidate receives: a gathered candidate, or null when
\* gathering is complete.
LocalCandidates == {"local", ""}

\* pc.onicecandidate: the peer connection gathers candidates once it has a
\* local description. A candidate is handed to sendSignal at once; the null
\* event is only logged.
SigLocalCandidate ==
  \E c \in LocalCandidates :
    /\ pc = "open"
    /\ localDescription
    /\ sTurn' = SigTurn("onicecandidate", c, IF c # "" THEN sendSignal ELSE "none",
                        {}, FALSE)
    /\ UnchangedPeerConnection
    /\ UNCHANGED <<sPhase, sState, localStream, remoteStream, messageHandler, sSubscribed>>
    /\ UNCHANGED <<sSent, sClosed, sAcked, trackEnabled>>
    /\ UNCHANGED <<registry, hook, providerVars, consumerVars, sMqtt, hookEnabled>>

\* The argument of toggleAudio and toggleVideo: true, false, or none.
ToggleArguments == {"on", "off", "flip"}

\* toggleAudio(enabled) and toggleVideo(enabled) of the session: nothing
\* without a local stream, otherwise track.enabled of the tracks of the kind.
toggle(kind, arg) ==
  IF ~localStream
    THEN trackEnabled
    ELSE [trackEnabled EXCEPT ![kind] = CASE arg = "on" -> TRUE
                                          [] arg = "off" -> FALSE
                                          [] OTHER -> ~@]

\* The application calls toggleAudio or toggleVideo on the session.
SigToggle ==
  \E kind \in TrackKinds, arg \in ToggleArguments :
    /\ trackEnabled' = toggle(kind, arg)
    /\ sTurn' = SigTurn("toggle", kind, arg, {}, FALSE)
    /\ UnchangedPeerConnection
    /\ UNCHANGED <<sPhase, sState, localStream, remoteStream, messageHandler, sSubscribed>>
    /\ UNCHANGED <<sSent, sClosed, sAcked>>
    /\ UNCHANGED <<registry, hook, providerVars, consumerVars, sMqtt, hookEnabled>>

\* ------------------------------------------------- signaling: useWebRTCMqtt

\* The hook's disconnect(): the session's disconnect(), then the MQTT client
\* is ended when it is connected, and 'disconnected' is stored.
hookDisconnect(op, kind) ==
  /\ Disconnected(disconnect)
  /\ sMqtt' = IF sMqtt = "connected" THEN "ended" ELSE sMqtt
  /\ sClosed' = TRUE
  /\ sTurn' = SigTurn(op, kind, "disconnect",
                      disconnect.released
                        \cup (IF sMqtt = "connected" THEN {"mqtt"} ELSE {}),
                      FALSE)
  /\ UNCHANGED <<sPhase, sSent, sAcked>>

\* The hook's connect(), called while no connect() of the session is in
\* progress: connectMqtt() when the client was ended, which may reject; then
\* the previous session is disconnected and a new one is created and
\* connected, which throws when the MQTT client is not connected. The catch
\* block stores 'failed'.
hookConnect(op, kind) ==
  /\ sPhase = "none"
  /\ \/ /\ sMqtt = "ended"
        /\ sState' = "failed"
        /\ sTurn' = SigTurn(op, kind, "connectMqtt failed", {}, FALSE)
        /\ UnchangedPeerConnection
        /\ UNCHANGED <<sPhase, localStream, remoteStream, messageHandler, sSubscribed>>
        /\ UNCHANGED <<sClosed, sAcked, sMqtt, trackEnabled>>
     \/ /\ sMqtt # "offline"
        /\ sMqtt' = "connected"
        /\ Cleared(disconnect)
        /\ sPhase' = FirstStep
        /\ sState' = "connecting"
        /\ sClosed' = FALSE
        /\ sAcked' = FALSE
        /\ sTurn' = SigTurn(op, kind, "connect", disconnect.released, FALSE)
     \/ /\ sMqtt = "offline"
        /\ Cleared(disconnect)
        /\ sState' = "failed"
        /\ sClosed' = TRUE
        /\ sTurn' = SigTurn(op, kind, "connect failed", disconnect.released, FALSE)
        /\ UNCHANGED <<sPhase, sAcked, sMqtt>>
  /\ UNCHANGED sSent

\* The application calls the hook's connect().
HookConnect ==
  /\ hookConnect("hook connect", "")
  /\ UNCHANGED hookEnabled
  /\ UNCHANGED <<registry, hook, providerVars, consumerVars>>

\* The application calls the hook's disconnect().
HookDisconnect ==
  /\ hookDisconnect("hook disconnect", "")
  /\ UNCHANGED hookEnabled
  /\ UNCHANGED <<registry, hook, providerVars, consumerVars>>

\* The hook's toggleAudio(enabled) and toggleVideo(enabled): enabling calls
\* connect() when the kind was disabled and the state is not 'connected', and
\* the session's toggle otherwise; disabling calls disconnect().
HookToggle ==
  \E kind \in TrackKinds, arg \in ToggleArguments :
    LET shouldEnable == arg = "on" \/ (arg = "flip" /\ ~hookEnabled[kind])
    IN /\ IF shouldEnable
            THEN IF ~hookEnabled[kind] /\ sState # "connected"
                   THEN hookConnect("hook toggle", kind)
                   ELSE /\ trackEnabled' = toggle(kind, "on")
                        /\ sTurn' = SigTurn("hook toggle", kind, "toggle", {}, FALSE)
                        /\ UnchangedPeerConnection
                        /\ UNCHANGED <<sPhase, sState, localStream, remoteStream>>
                        /\ UNCHANGED <<messageHandler, sSubscribed, sSent, sClosed, sAcked>>
                        /\ UNCHANGED sMqtt
            ELSE hookDisconnect("hook toggle", kind)
       /\ hookEnabled' = [hookEnabled EXCEPT ![kind] = shouldEnable]
       /\ UNCHANGED <<registry, hook, providerVars, consumerVars>>

\* The MQTT client loses its connection ('close'); it keeps reconnecting.
MqttOffline ==
  /\ sMqtt = "connected"
  /\ sMqtt' = "offline"
  /\ sTurn' = Did("mqtt offline")
  /\ UnchangedPeerConnection
  /\ UNCHANGED <<sPhase, sState, localStream, remoteStream, messageHandler, sSubscribed>>
  /\ UNCHANGED <<sSent, sClosed, sAcked, trackEnabled, hookEnabled>>
  /\ UNCHANGED <<registry, hook, providerVars, consumerVars>>

\* The MQTT client reconnects ('connect') and subscribes its topics again.
MqttOnline ==
  /\ sMqtt = "offline"
  /\ sMqtt' = "connected"
  /\ sTurn' = Did("mqtt online")
  /\ UnchangedPeerConnection
  /\ UNCHANGED <<sPhase, sState, localStream, remoteStream, messageHandler, sSubscribed>>
  /\ UNCHANGED <<sSent, sClosed, sAcked, trackEnabled, hookEnabled>>
  /\ UNCHANGED <<registry, hook, providerVars, consumerVars>>

\* ------------------------------------- useWebRTCMqtt: overlapping connect() calls

Calls == 1..MaxCalls

\* The hook after its first render: no client, no session, nothing awaited.
\* clients[k] is the state of the k-th client mqtt.connect returned,
\* sessions[s] that of the s-th session: 'connecting' while its connect() is
\* suspended, 'open' when it holds tracks, a peer connection and a listener,
\* 'overtaken' when disconnect() ran while its connect() was suspended,
\* 'orphaned' when that connect() went on to acquire them, 'released' when it
\* holds nothing. awaiting[c] is the client whose 'connect' event call c awaits.
HookInit ==
  [clients |-> <<>>, mqttClientRef |-> 0, mqttConnected |-> FALSE,
   sessions |-> <<>>, signalingRef |-> 0, awaiting |-> [c \in Calls |-> 0]]

HookIdle == hook = HookInit

\* The state of a session after its disconnect().
SessionDisconnected(state) ==
  CASE state = "open" -> "released"
    [] state = "connecting" -> "overtaken"
    [] OTHER -> state

\* connect() once MQTT is connected: the session signalingRef holds is
\* disconnected, a new session is created with mqttClientRef.current and its
\* connect() is called, which throws at once when that client is not connected.
StartSession(h) ==
  LET previous == IF h.signalingRef = 0 THEN h.sessions
                  ELSE [h.sessions EXCEPT ![h.signalingRef] = SessionDisconnected(@)]
      usable == h.mqttClientRef # 0 /\ h.clients[h.mqttClientRef] = "connected"
  IN [h EXCEPT !.sessions = Append(previous, IF usable THEN "connecting" ELSE "released"),
               !.signalingRef = Len(previous) + 1]

\* connectMqtt() for call c: mqtt.connect creates a client, and the call waits
\* for its 'connect' or 'error' event.
connectMqtt(h, c) ==
  [h EXCEPT !.clients = Append(h.clients, "connecting"),
            !.awaiting[c] = Len(h.clients) + 1]

\* The application, the auto-connect effect or a toggle calls connect().
CallConnect ==
  \E c \in Calls :
    /\ hook.awaiting[c] = 0
    /\ IF hook.mqttClientRef = 0 \/ ~hook.mqttConnected
         THEN /\ Len(hook.clients) < MaxHookClients
              /\ hook' = connectMqtt(hook, c)
         ELSE /\ Len(hook.sessions) < MaxSessions
              /\ hook' = StartSession(hook)
    /\ UNCHANGED <<providerVars, consumerVars, sigVars, registry>>

\* on('connect') of client k, at its first connection and at every
\* reconnection: the broker gives the client id to k and closes the connection
\* of the client that held it; the ref and mqttConnected are set and the
\* promise is resolved, and the call that awaited it goes on.
ClientOnConnect ==
  \E k \in DOMAIN hook.clients :
    /\ hook.clients[k] = "connecting"
    /\ LET linkedTo == [hook EXCEPT
                          !.clients = [j \in DOMAIN hook.clients |->
                                         IF j = k THEN "connected"
                                         ELSE IF hook.clients[j] = "connected"
                                           THEN "connecting"
                                         ELSE hook.clients[j]],
                          !.mqttClientRef = k,
                          !.mqttConnected = TRUE]
           waiting == {c \in Calls : hook.awaiting[c] = k}
       IN IF waiting = {}
            THEN hook' = linkedTo
            ELSE /\ Len(hook.sessions) < MaxSessions
                 /\ hook' = StartSession([linkedTo EXCEPT
                                            !.awaiting = [c \in Calls |->
                                                            IF c \in waiting THEN 0
                                                            ELSE hook.awaiting[c]]])
    /\ UNCHANGED <<providerVars, consumerVars, sigVars, registry>>

\* on('error') of client k: the promise is rejected, and a call that awaited
\* it ends in its catch block. The client is not ended.
ClientOnError ==
  \E k \in DOMAIN hook.clients :
    /\ hook.clients[k] # "ended"
    /\ \E c \in Calls : hook.awaiting[c] = k
    /\ hook' = [hook EXCEPT !.awaiting = [c \in Calls |->
                                            IF hook.awaiting[c] = k THEN 0
                                            ELSE hook.awaiting[c]]]
    /\ UNCHANGED <<providerVars, consumerVars, sigVars, registry>>

\* The hook's disconnect(): the session signalingRef holds is disconnected and
\* the ref cleared; the client mqttClientRef holds is ended and the ref cleared
\* when it is connected; mqttConnected is set to false.
CallDisconnect ==
  /\ hook.signalingRef # 0 \/ hook.mqttClientRef # 0
  /\ LET ends == hook.mqttClientRef # 0 /\ hook.clients[hook.mqttClientRef] = "connected"
     IN hook' = [hook EXCEPT
                   !.sessions = IF hook.signalingRef = 0 THEN @
                                ELSE [@ EXCEPT ![hook.signalingRef] = SessionDisconnected(@)],
                   !.signalingRef = 0,
                   !.clients = IF ends THEN [@ EXCEPT ![hook.mqttClientRef] = "ended"] ELSE @,
                   !.mqttClientRef = IF ends THEN 0 ELSE @,
                   !.mqttConnected = FALSE]
  /\ UNCHANGED <<providerVars, consumerVars, sigVars, registry>>

\* The connect() of session s finishes: it holds its tracks, peer connection
\* and listener, also when disconnect() overtook it during the subscription or
\* getUserMedia; overtaken during createOffer it ends in its catch block.
SessionSettles ==
  \E s \in DOMAIN hook.sessions :
    /\ \/ /\ hook.sessions[s] = "connecting"
          /\ hook' = [hook EXCEPT !.sessions[s] = "open"]
       \/ /\ hook.sessions[s] = "overtaken"
          /\ \E end \in {"orphaned", "released"} :
               hook' = [hook EXCEPT !.sessions[s] = end]
    /\ UNCHANGED <<providerVars, consumerVars, sigVars, registry>>

\* The clients of the hook that are not ended.
HookClients == {k \in DOMAIN hook.clients : hook.clients[k] # "ended"}

\* The sessions that hold tracks, a peer connection or a listener, or are
\* about to.
LiveSessions == {s \in DOMAIN hook.sessions : hook.sessions[s] # "released"}

\* C37: whatever calls of the hook's connect() overlap, the hook has at most
\* one MQTT client that is not ended and at most one live session, and every
\* live session is the one signalingRef holds.
C37_OneClientOneSession ==
  /\ Cardinality(HookClients) <= 1
  /\ Cardinality(LiveSessions) <= 1
  /\ \A s \in LiveSessions : s = hook.signalingRef

SigIdle ==
  /\ sPhase = "none"
  /\ sState = "new"
  /\ pc = "null"
  /\ localStream = FALSE
  /\ remoteStream = FALSE
  /\ messageHandler = FALSE
  /\ sSubscribed = FALSE
  /\ localDescription = FALSE
  /\ remoteDescription = "null"
  /\ chained = <<>>
  /\ applied = <<>>
  /\ sSent = {}
  /\ sClosed = FALSE
  /\ sAcked = FALSE
  /\ sMqtt = "connected"
  /\ trackEnabled = AllEnabled
  /\ hookEnabled = AllEnabled
  /\ sTurn = Did("")

SigNext ==
  \/ SigConnect
  \/ SigSubscribed
  \/ SigMediaAcquired
  \/ SigOfferSent
  \/ SigDisconnect
  \/ SigOnMessage
  \/ SigAnswerApplied
  \/ SigConnectionStateChange
  \/ SigLocalCandidate
  \/ SigToggle

\* The session as the hook drives it, over an MQTT connection that comes and
\* goes.
HookNext ==
  \/ SigSubscribed
  \/ SigMediaAcquired
  \/ SigOfferSent
  \/ SigOnMessage
  \/ SigAnswerApplied
  \/ SigConnectionStateChange
  \/ SigLocalCandidate
  \/ HookConnect
  \/ HookDisconnect
  \/ HookToggle
  \/ MqttOffline
  \/ MqttOnline

\* C29: every candidate the peer connection gathers is published at once as
\* one ice_candidate message, the null event that ends gathering publishes
\* nothing, and an offer that was created and set as the local description
\* is published: no local offer or candidate is lost.
C29_LocalSignalsPublished ==
  /\ sTurn.op = "onicecandidate"
       => sTurn.outcome = IF sTurn.candidate # "" THEN "sent" ELSE "none"
  /\ (sTurn.op = "offer" /\ sTurn.outcome # "failed") => sTurn.outcome = "sent"

\* The remote tracks the session holds: pc.ontrack adds each track of the
\* answer to remoteStream when the remote description is set.
RemoteTracks ==
  IF remoteStream /\ pc = "open" /\ remoteDescription = "set" THEN TrackKinds ELSE {}

\* The proxy answers the offer, and the session hands the answer to the peer
\* connection.
AnswerArrives ==
  /\ SigOnMessage
  /\ sTurn'.op = "sdp_answer"
  /\ sTurn'.outcome = "pending"

\* The peer connection, holding both descriptions and a candidate of the
\* proxy, reaches 'connected'.
ConnectionEstablished ==
  /\ SigConnectionStateChange
  /\ applied # <<>>
  /\ sState' = "connected"

\* C30: a session whose connect() has completed, that has sent its offer and
\* has received a candidate of the proxy, before or after the answer,
\* eventually is connected with remote tracks, unless it is closed or the
\* connection is reported failed first.
C30_ScenarioConnects ==
  (sPhase = "none" /\ pc = "open" /\ localDescription /\ sTurn.op = "ice_candidate")
    ~> \/ sState = "connected" /\ RemoteTracks # {}
       \/ sState = "failed"
       \/ pc # "open"

\* C3: a candidate that arrives while the remote description is not set is
\* kept and applied once the answer is set, in arrival order: no candidate is
\* handed to the peer connection before it has a remote description, and none
\* is dropped.
C3_CandidatesWaitForAnswer ==
  (sTurn.op = "ice_candidate" /\ pc = "open")
    => sTurn.outcome \in {"applied", "chained"}

\* C10: disconnect() leaves every resource of the session released, and a
\* disconnect() right after a disconnect() stops no track, closes no peer
\* connection, removes no listener and unsubscribes nothing.
C10_DisconnectIdempotent ==
  sTurn.op = "disconnect"
    => /\ pc = "null"
       /\ ~localStream
       /\ ~remoteStream
       /\ ~messageHandler
       /\ sTurn.afterDisconnect => sTurn.released = {}

C10_Witness ==
  /\ sTurn.op = "disconnect"
  /\ sTurn.afterDisconnect
  /\ sPhase = "none"
  /\ sSent # {}

\* Nothing of the session is left: no local stream, no peer connection, no
\* message listener and no subscription.
Released ==
  /\ ~localStream
  /\ pc = "null"
  /\ ~messageHandler
  /\ ~sSubscribed

\* C32: after the hook's disconnect(), whatever state it was called in, no
\* local or remote stream, peer connection, listener or subscription is left,
\* the MQTT client is ended and the state stored is 'disconnected'.
C32_HookDisconnectReleasesAll ==
  sTurn.op = "hook disconnect"
    => /\ Released
       /\ ~remoteStream
       /\ sState = "disconnected"
       /\ sMqtt = "ended"

\* The session was closed while its connect() is suspended: connect() clears
\* sClosed when it starts, and has not finished.
ClosedInFlight == sClosed /\ sPhase # "none"

\* C35: a connect() that goes on after the session was closed under it
\* publishes no offer, and when it finishes no local stream, no peer
\* connection and no message listener is left.
C35_NothingLeftBehind ==
  [][ClosedInFlight
       => /\ ~(sTurn'.op = "offer" /\ sTurn'.outcome = "sent")
          /\ sPhase' = "none" => (~localStream' /\ pc' = "null" /\ ~messageHandler')]_vars

\* A turn in which the session reported an error and the state 'failed'.
FailureTurn == sTurn.errors > 0 /\ sState = "failed"

\* C11: once connect() has failed at a step, or the peer connection has
\* reported failed, no local track is left running, no peer connection is left
\* open, and the listener and the subscriptions are removed.
C11_ReleasedOnFailure == FailureTurn => Released

\* C12: after an explicit close or an inbound webrtc_terminated, and until
\* connect() is called again, the local tracks are stopped, the peer connection
\* is closed and released, the listener is removed and the topics are
\* unsubscribed.
C12_ClosedIsReleased == sClosed => Released

\* C13: a session that receives webrtc_terminated ends in the state failed,
\* with its local tracks stopped and its topics unsubscribed.
C13_TerminatedEndsFailed ==
  sTurn.op = "webrtc_terminated"
    => /\ sState = "failed"
       /\ ~localStream
       /\ ~sSubscribed

\* C14: the reported state becomes connected only in a step where the peer
\* connection reports connectionState 'connected', and never on a session that
\* was closed.
C14_ConnectedOnlyFromPeerConnection ==
  [][(sState' = "connected" /\ sState # "connected")
       => /\ sTurn'.op = "connection state"
          /\ sTurn'.outcome = "connected"
          /\ ~sClosed']_vars

\* A turn in which a step of connect() failed or the peer connection reported
\* 'failed'.
NegotiationFailed == sTurn.outcome = "failed"

\* A turn in which setupWebRTC created a peer connection, or sent the offer.
Negotiates(t) ==
  \/ t.op = "media" /\ t.outcome # "failed"
  \/ t.op = "offer" /\ t.outcome = "sent"

OfferPublished == sTurn.op = "offer" /\ sTurn.outcome = "sent"

ToggleOps == {"toggle", "hook toggle"}

\* C21: toggling audio or video releases nothing (no track stopped, no peer
\* connection closed, no topic unsubscribed, no MQTT connection ended), and
\* changes nothing when there is no local stream.
C21_ToggleKeepsSession ==
  [][sTurn'.op \in ToggleOps
       => /\ sTurn'.released = {}
          /\ ~localStream => trackEnabled' = trackEnabled]_vars

\* ------------------------------------------------- the tool registry, called directly

\* Values a caller may give a field: of each primitive type, in and out of
\* the declared enums and ranges, and null.
FieldValues(field) ==
  CASE field = "enabled" -> {Absent, Bool(TRUE), Str("yes"), Num(1)}
    [] field = "emotion" -> {Absent, Str("happy"), Str("bored"), Num(5)}
    [] field = "source" -> {Absent, Str("remote"), Str("front"), Bool(TRUE)}
    [] field = "quality" -> {Absent, Num(90), Num(500), Str("high")}
    [] field = "volume" -> {Absent, Num(50), Num(150), Str("loud")}
    [] field = "muted" -> {Absent, Bool(TRUE), Str("yes"), Null}

\* The argument objects tried with a tool: every combination of values for
\* the properties its schema declares, and for an unregistered name the empty
\* object.
ArgumentsFor(name) ==
  IF ~IsOwnTool(name)
    THEN {ObjectArguments(NoFields)}
    ELSE LET props == TOOL_DEFINITIONS[name].properties
             declared == {props[i].field : i \in DOMAIN props}
             Tried(x) == IF x \in declared THEN FieldValues(x) ELSE {Absent}
         IN {ObjectArguments([enabled |-> a, emotion |-> b, source |-> c,
                              quality |-> d, volume |-> e, muted |-> m]) :
               a \in Tried("enabled"), b \in Tried("emotion"), c \in Tried("source"),
               d \in Tried("quality"), e \in Tried("volume"), m \in Tried("muted")}

\* The names tried: the registered tools, an unregistered name, and a key
\* inherited from Object.prototype.
TriedNames == {ToolNames[i] : i \in DOMAIN ToolNames} \cup {"nope"} \cup InheritedKeys

NoValidation == [threw |-> FALSE, valid |-> FALSE, errors |-> <<>>]
NoExecution == [threw |-> FALSE, ran |-> FALSE, calls |-> <<>>, result |-> Failed(<<>>)]

RegistryCall(name, args) ==
  [name |-> name, args |-> args, op |-> "none", validation |-> NoValidation,
   cb |-> "", execution |-> NoExecution, list |-> <<>>]

RegistryIdle == registry = RegistryCall("", ObjectArguments(NoFields))

RegistryInputs ==
  registry \in {RegistryCall(name, args) :
                  name \in TriedNames, args \in UNION {ArgumentsFor(n) : n \in TriedNames}}

\* validateToolArguments(name, args) is called.
RegistryValidate ==
  /\ registry' = [RegistryCall(registry.name, registry.args) EXCEPT
                    !.op = "validate",
                    !.validation = validateToolArguments(registry.name, registry.args)]
  /\ UNCHANGED <<providerVars, consumerVars, sigVars, hook>>

\* executeToolCall(name, args, context) is called; the application's callback
\* returns or throws.
RegistryExecute ==
  \E outcome \in CallbackOutcomes :
    /\ registry' = [RegistryCall(registry.name, registry.args) EXCEPT
                      !.op = "execute",
                      !.cb = outcome,
                      !.execution = executeToolCall(registry.name, registry.args,
                                                    callbacks, outcome)]
    /\ UNCHANGED <<providerVars, consumerVars, sigVars, hook>>

\* getToolsList() is called.
RegistryList ==
  /\ registry' = [RegistryCall(registry.name, registry.args) EXCEPT
                    !.op = "list", !.list = getToolsList]
  /\ UNCHANGED <<providerVars, consumerVars, sigVars, hook>>

RegistryNext ==
  \/ RegistryValidate
  \/ RegistryExecute
  \/ RegistryList

\* Whether the validation result r has the entry of `kind` for `field`.
HasError(r, kind, field) ==
  \E i \in DOMAIN r.errors : r.errors[i] = [kind |-> kind, field |-> field]

\* The declared primitive types validateToolArguments compares typeof with.
CheckedTypes == {"boolean", "string"}

BreaksSchema(name, f) ==
  LET schema == TOOL_DEFINITIONS[name]
  IN \/ \E i \in DOMAIN schema.required : ~In(schema.required[i], f)
     \/ \E i \in DOMAIN schema.properties :
          LET p == schema.properties[i]
              v == f[p.field]
          IN /\ In(p.field, f)
             /\ \/ TypeOf(v) # p.type
                \/ p.enum # {} /\ ~(v.t = "string" /\ v.s \in p.enum)

\* C23: validate rejects an unregistered tool name, and for a registered tool
\* a missing required field, a value whose type differs from the declared
\* boolean, string or number type, and a value outside the declared enum.
C23_ValidateRejects ==
  (registry.op = "validate"
     /\ (IsOwnTool(registry.name) => BreaksSchema(registry.name, registry.args.f)))
    => ~registry.validation.valid

\* C24: for a registered tool and arguments validate accepts, with every
\* application callback registered and returning, executing the tool returns
\* a successful result.
C24_ValidArgumentsExecute ==
  (registry.op = "execute"
     /\ IsOwnTool(registry.name)
     /\ validateToolArguments(registry.name, registry.args).valid
     /\ callbacks = AllCallbacks
     /\ registry.cb = "returns")
    => registry.execution.result.success

Init == ProviderInit /\ ConsumerIdle /\ SigIdle /\ RegistryIdle /\ HookIdle

InitRegistry == ProviderInit /\ ConsumerIdle /\ SigIdle /\ RegistryInputs /\ HookIdle

Next == ProviderNext

Spec == Init /\ [][Next]_vars

NextClient ==
  \/ Connect
  \/ OnConnect
  \/ OnClose
  \/ Disconnect
  \/ SubscribeToMcpTopics
  \/ OnMessage
  \/ ClientConnect
  \/ ClientDisconnect
  \/ ClientOnMessage
  \/ ClientCallTool
  \/ ForeignRequest

SpecClient == Init /\ [][NextClient]_vars

\* The provider with its timers: a timer set by on('connect') fires.
SpecLive == Spec /\ WF_vars(SubscribeToMcpTopics)

\* The provider with an application that registers its event listeners.
NextApp ==
  \/ ProviderNext
  \/ RegisterOnMessage
  \/ RegisterOnError

SpecApp == Init /\ [][NextApp]_vars

\* The transport of one instance whose application calls connect() and
\* disconnect() in any order, with the events of every client it created.
NextTransport ==
  \/ ConnectAgain
  \/ OnConnect
  \/ OnClose
  \/ OnDisconnect
  \/ OnError
  \/ Disconnect
  \/ SubscribeToMcpTopics

SpecTransport == Init /\ [][NextTransport]_vars

\* The useWebRTCMqtt hook with calls of connect() that overlap.
NextHookCalls ==
  \/ CallConnect
  \/ ClientOnConnect
  \/ ClientOnError
  \/ CallDisconnect
  \/ SessionSettles

SpecHookCalls == Init /\ [][NextHookCalls]_vars

\* The provider and a signaling session on one MQTT client that receives the
\* messages of both.
NextShared ==
  \/ Connect
  \/ OnConnect
  \/ OnSessionTopic
  \/ SigConnect
  \/ SigSubscribed
  \/ SigMediaAcquired
  \/ SigOfferSent
  \/ SigOnMessage
  \/ SigAnswerApplied
  \/ SigOnOtherTopic

SpecShared == Init /\ [][NextShared]_vars

SpecSig == Init /\ [][SigNext]_vars

SpecHook == Init /\ [][HookNext]_vars

\* The session in a negotiation that is carried through: a pending
\* setRemoteDescription settles, the proxy answers an offer, and a peer
\* connection that has the proxy's candidate gets connected.
SpecSigLive ==
  /\ SpecSig
  /\ WF_vars(SigAnswerApplied)
  /\ WF_vars(AnswerArrives)
  /\ WF_vars(ConnectionEstablished)

SpecRegistry == InitRegistry /\ [][RegistryNext]_vars

====
